---- MODULE Spec2Model ----
(***************************************************************************)
(* Federation engine of the ASP reference server (FederationManager):      *)
(* trust policy, event signing and verification, inbound processing, the   *)
(* outbox log and the active-push delivery queue with retry and backoff.   *)
(*                                                                         *)
(* Time is counted in seconds (the source counts milliseconds; every       *)
(* duration in the source is a whole number of seconds).                   *)
(***************************************************************************)
EXTENDS Integers, Sequences, FiniteSets, TLC

----------------------------------------------------------------------------
(* Bounds of the model *)

\* number of remote instance identifiers
NumPeers == 2

\* number of inbound listeners registered at a time
MaxListeners == 2

\* number of events published
MaxEvents == 1

\* number of peers the engine knows when it starts the push processor
NumTargets == 1

\* number of drain cycles in progress at a time
MaxCycles == 2

\* the clock stops here
MaxClock == 4000

\* The outbox keeps the last OUTBOX_CAP events: 1000 in the source, where
\* the number occurs as the cap of publishEvent and as the limit of the
\* load; the engine compares it with the length of the log and with
\* nothing else
OUTBOX_CAP == 2

\* number of events published by the engine over its storage
MaxPublishes == 4

\* the clock of the engine that drains a queue with several targets stops here
DrainClock == 12

\* number of outbox events given to the two storage backends, and the
\* latest time they are created at
MaxStored == 2

MaxCreated == 1

\* the clock of the engine over its storage stops here
StoreClock == 10

\* the clock of the engine whose terminal attempts grow old stops here
SweepClock == 3700

\* that engine is restarted up to this time
RestartClock == 10

\* The instance the engine under study runs on (config.instanceUri)
Self == "self"

PeerNames == <<"peer1", "peer2", "peer3", "peer4">>

Peers == {PeerNames[i] : i \in 1..NumPeers}

Uris == {Self} \cup Peers

----------------------------------------------------------------------------
(* Types of the source *)

TrustMode == {"open", "allowlist", "blocklist", "closed"}

\* undefined / null
NoValue == "undefined"

VARIABLES
    clock,            \* Date.now()
    config,           \* FederationConfig: enabled, instanceUri, trust, signingKey
    knownInstances,   \* Map<string, RemoteInstance>, in insertion order
    discoveries,      \* discoverInstance calls (subscribe, discover route) awaiting their fetch
    trustAnswer,      \* the last trustsInstance call: its argument, the policy it read, its answer
    lastCall,         \* per identifier, the most recent trust call made for it
    lastWrite,        \* per identifier, the most recent write of the allow or block set
    eventListeners,   \* Array of inbound listeners, in registration order
    inbound,          \* the last processInboundEvent call: arguments, what it read of policy and listeners, result
    response,         \* the last response of POST /federation/inbox
    outboxQueue,      \* Map<string, OutboxEvent>, in insertion order
    outboxIdCounter,  \* sequence number of the last event id issued
    lastPublish,      \* the last publishAndPush call and how it ended
    deliveryQueue,    \* Map<string, DeliveryAttempt>, in insertion order
    pushInterval,     \* whether the repeating timer is set
    timerNext,        \* the time the timer is due next
    cycles,           \* the processDeliveryQueue invocations in progress
    pushHistory,      \* per queue entry, the push results recorded on it so far
    lastPush,         \* the last push answered by the inbox route of a peer engine
    storage,          \* the FederationStorage the engine was constructed with, if any
    page,             \* the last getOutboxEvents call and its result
    backends          \* a MemoryFederationStorage and a SQLiteFederationStorage given the same calls, and their last results

trustVars == <<trustAnswer, lastCall, lastWrite>>

inboundVars == <<eventListeners, inbound, response>>

outboxVars == <<outboxQueue, outboxIdCounter, lastPublish>>

queueVars == <<deliveryQueue, cycles, pushHistory, lastPush>>

timerVars == <<pushInterval, timerNext>>

storeVars == <<storage, page, backends>>

vars == <<clock, config, knownInstances, discoveries, trustVars, inboundVars,
          outboxVars, queueVars, timerVars, storeVars>>

----------------------------------------------------------------------------
(* Trust policy *)

trustsInstance_AllowlistIgnored(cfg, instanceUri) ==
    IF ~cfg.enabled THEN FALSE
    ELSE CASE cfg.trust.mode = "closed"    -> FALSE
           [] cfg.trust.mode = "open"      -> instanceUri \notin cfg.trust.blocklist
           [] cfg.trust.mode = "blocklist" -> instanceUri \notin cfg.trust.blocklist
           [] cfg.trust.mode = "allowlist" -> instanceUri \notin cfg.trust.blocklist
           [] OTHER                        -> FALSE

trustsInstance(cfg, instanceUri) ==
    IF ~cfg.enabled THEN FALSE
    ELSE CASE cfg.trust.mode = "closed"    -> FALSE
           [] cfg.trust.mode = "open"      -> instanceUri \notin cfg.trust.blocklist
           [] cfg.trust.mode = "blocklist" -> instanceUri \notin cfg.trust.blocklist
           [] cfg.trust.mode = "allowlist" -> instanceUri \in cfg.trust.allowlist
           [] OTHER                        -> FALSE

----------------------------------------------------------------------------
(* Known instances: a Map keeps insertion order, and set() of a key that   *)
(* is present replaces the value in place                                  *)

MapHas(map, key) == \E i \in 1..Len(map) : map[i].key = key

MapIndex(map, key) == CHOOSE i \in 1..Len(map) : map[i].key = key

MapGet(map, key) == map[MapIndex(map, key)].value

MapSet(map, key, value) ==
    IF MapHas(map, key)
    THEN [map EXCEPT ![MapIndex(map, key)] = [key |-> key, value |-> value]]
    ELSE Append(map, [key |-> key, value |-> value])

MapDelete(map, key) ==
    IF MapHas(map, key)
    THEN LET i == MapIndex(map, key)
         IN  SubSeq(map, 1, i - 1) \o SubSeq(map, i + 1, Len(map))
    ELSE map

MapKeys(map) == {map[i].key : i \in 1..Len(map)}

Min(a, b) == IF a < b THEN a ELSE b

RemoveAt(seq, i) == SubSeq(seq, 1, i - 1) \o SubSeq(seq, i + 1, Len(seq))

----------------------------------------------------------------------------
(* FederationStorage (SQLiteFederationStorage).  A table is the sequence   *)
(* of its rows: instances and delivery attempts in rowid order, the outbox *)
(* in the order of its index on created (created, then rowid).  An upsert  *)
(* of a key that is present leaves the row where it is.                    *)

\* the engine constructed without a storage
NoStorage ==
    [present |-> FALSE, instances |-> <<>>, outbox |-> <<>>, deliveries |-> <<>>]

\* the tables after initTables on a new database
EmptyStorage ==
    [present |-> TRUE, instances |-> <<>>, outbox |-> <<>>, deliveries |-> <<>>]

InsertAt(seq, i, x) == SubSeq(seq, 1, i - 1) \o <<x>> \o SubSeq(seq, i, Len(seq))

saveInstance(store, instance) ==
    [store EXCEPT !.instances = MapSet(@, instance.uri, instance)]

\* ON CONFLICT(id) updates event_json and delivered_to, not created
saveOutboxEvent(store, event) ==
    LET rows == store.outbox
        n == Len(rows)
    IN  IF MapHas(rows, event.id)
        THEN [store EXCEPT !.outbox[MapIndex(rows, event.id)].value =
                 [@ EXCEPT !.event = event.event, !.deliveredTo = event.deliveredTo]]
        ELSE LET before ==
                     IF n = 0 \/ rows[n].value.created <= event.created THEN n
                     ELSE Cardinality({i \in 1..n :
                                          rows[i].value.created <= event.created})
             IN  [store EXCEPT !.outbox =
                     InsertAt(rows, before + 1, [key |-> event.id, value |-> event])]

deleteOutboxEvent(store, id) == [store EXCEPT !.outbox = MapDelete(@, id)]

saveDeliveryAttempt(store, attempt) ==
    [store EXCEPT !.deliveries = MapSet(@, attempt.key, attempt)]

deleteDeliveryAttempt(store, key) == [store EXCEPT !.deliveries = MapDelete(@, key)]

\* ORDER BY leaves rows with equal sort keys in an order the database
\* chooses: the positions at which two neighbours have equal keys
Tied(keys) == {i \in 1..(Len(keys) - 1) : keys[i] = keys[i + 1]}

\* the rows with the neighbours at position tie exchanged; none if tie = 0
Exchange(rows, tie) ==
    IF tie = 0 THEN rows
    ELSE [rows EXCEPT ![tie] = rows[tie + 1], ![tie + 1] = rows[tie]]

CreatedOf(row) == row.value.created

NextAttemptOf(row) == row.value.nextAttempt

\* the sort keys of the rows of the two ordered queries
CreatedKeys(rows) == [i \in 1..Len(rows) |-> CreatedOf(rows[i])]

NextAttemptKeys(rows) == [i \in 1..Len(rows) |-> NextAttemptOf(rows[i])]

\* SELECT * FROM federation_outbox ORDER BY created ASC LIMIT ?
storage_getOutboxEvents(store, limit, tie) ==
    SubSeq(Exchange(store.outbox, tie), 1, Min(limit, Len(store.outbox)))

RECURSIVE SortedByNextAttempt(_)
SortedByNextAttempt(rows) ==
    IF rows = <<>> THEN <<>>
    ELSE LET first == CHOOSE i \in 1..Len(rows) :
                          \A j \in 1..Len(rows) :
                              \/ NextAttemptOf(rows[i]) < NextAttemptOf(rows[j])
                              \/ NextAttemptOf(rows[i]) = NextAttemptOf(rows[j]) /\ i <= j
         IN  <<rows[first]>> \o SortedByNextAttempt(RemoveAt(rows, first))

IsPendingBefore(row, beforeTime) ==
    row.value.status = "pending" /\ row.value.nextAttempt <= beforeTime

\* WHERE status = 'pending' AND next_attempt <= ? ORDER BY next_attempt ASC
PendingDeliveries(store, beforeTime) ==
    SortedByNextAttempt(
        SelectSeq(store.deliveries, LAMBDA row : IsPendingBefore(row, beforeTime)))

getPendingDeliveries(store, beforeTime, tie) ==
    Exchange(PendingDeliveries(store, beforeTime), tie)

\* SELECT * FROM federation_instances
getInstances(store) == store.instances

\* SELECT * FROM federation_outbox WHERE id = ?: the row, or none
getOutboxEvent(store, id) ==
    IF MapHas(store.outbox, id) THEN <<MapGet(store.outbox, id)>> ELSE <<>>

\* getOutboxEvents with its options: the limit is 100 unless one is given,
\* and with a cursor that is the id of a row the rows created after that
\* row are selected (WHERE created > ?)
STORAGE_PAGE == 100

NewerThanCursor(store, since) ==
    IF since # 0 /\ MapHas(store.outbox, since)
    THEN SelectSeq(store.outbox,
                   LAMBDA row : row.value.created > MapGet(store.outbox, since).created)
    ELSE store.outbox

storage_getOutboxEventsSince(store, since, limit, tie) ==
    LET rows == Exchange(NewerThanCursor(store, since), tie)
    IN  SubSeq(rows, 1, Min(IF limit = 0 THEN STORAGE_PAGE ELSE limit, Len(rows)))

\* markDelivered reads the row, adds the instance and saves the row
markDelivered(store, eventId, instanceUri) ==
    IF MapHas(store.outbox, eventId)
           /\ instanceUri \notin MapGet(store.outbox, eventId).deliveredTo
    THEN saveOutboxEvent(store, [MapGet(store.outbox, eventId) EXCEPT
                                    !.deliveredTo = @ \cup {instanceUri}])
    ELSE store

----------------------------------------------------------------------------
(* MemoryFederationStorage: the outbox is a Map from id to event, in       *)
(* insertion order                                                         *)

memory_saveOutboxEvent(outbox, event) == MapSet(outbox, event.id, event)

memory_getOutboxEvent(outbox, id) ==
    IF MapHas(outbox, id) THEN <<MapGet(outbox, id)>> ELSE <<>>

\* Array.prototype.sort by created: a stable sort
RECURSIVE SortedByCreated(_)
SortedByCreated(rows) ==
    IF rows = <<>> THEN <<>>
    ELSE LET first == CHOOSE i \in 1..Len(rows) :
                          \A j \in 1..Len(rows) :
                              \/ rows[i].value.created < rows[j].value.created
                              \/ rows[i].value.created = rows[j].value.created /\ i <= j
         IN  <<rows[first]>> \o SortedByCreated(RemoveAt(rows, first))

\* the sorted events after the one with the id of the cursor, if there is
\* one, up to the limit
memory_getOutboxEvents(outbox, since, limit) ==
    LET sorted == SortedByCreated(outbox)
        events == IF since # 0 /\ MapHas(sorted, since)
                  THEN SubSeq(sorted, MapIndex(sorted, since) + 1, Len(sorted))
                  ELSE sorted
    IN  SubSeq(events, 1, Min(IF limit = 0 THEN STORAGE_PAGE ELSE limit, Len(events)))

memory_markDelivered(outbox, eventId, instanceUri) ==
    IF MapHas(outbox, eventId) /\ instanceUri \notin MapGet(outbox, eventId).deliveredTo
    THEN MapSet(outbox, eventId,
                [MapGet(outbox, eventId) EXCEPT !.deliveredTo = @ \cup {instanceUri}])
    ELSE outbox

memory_deleteOutboxEvent(outbox, id) == MapDelete(outbox, id)

\* the two backends before any call
NoBackends ==
    [memory |-> <<>>, sqlite |-> EmptyStorage, call |-> "none",
     memoryResult |-> <<>>, sqliteResult |-> <<>>]

\* the events of a page, without the keys of the rows
Values(rows) == [i \in 1..Len(rows) |-> rows[i].value]

----------------------------------------------------------------------------
(* The engine over its storage *)

persistInstance(store, cfg, instance) ==
    IF ~store.present THEN store
    ELSE saveInstance(store,
             [uri |-> instance.uri, version |-> instance.version,
              inbox |-> instance.inbox, outbox |-> instance.outbox,
              trustMode |-> instance.trustMode, lastSeen |-> instance.lastSeen,
              lastError |-> instance.lastError,
              isAllowed |-> instance.uri \in cfg.trust.allowlist,
              isBlocked |-> instance.uri \in cfg.trust.blocklist])

persistOutboxEvent(store, outboxEvent) ==
    IF ~store.present THEN store
    ELSE saveOutboxEvent(store,
             [id |-> outboxEvent.id, event |-> outboxEvent.event,
              created |-> outboxEvent.created,
              deliveredTo |-> outboxEvent.delivered])

persistDeliveryAttempt(store, key, attempt) ==
    IF ~store.present THEN store
    ELSE saveDeliveryAttempt(store,
             [key |-> key, instanceUri |-> attempt.instanceUri,
              eventId |-> attempt.eventId, attemptCount |-> attempt.attemptCount,
              lastAttempt |-> attempt.lastAttempt, nextAttempt |-> attempt.nextAttempt,
              status |-> attempt.status, lastError |-> attempt.lastError])

\* allowInstance and blockInstance persist the record of a known instance
TrustPersisted(store, cfg, known, instanceUri) ==
    IF MapHas(known, instanceUri)
    THEN persistInstance(store, cfg, MapGet(known, instanceUri))
    ELSE store

----------------------------------------------------------------------------
(* Discovery *)

\* the answers a remote instance can give to GET /.well-known/asp; an
\* endpoint URL is written as the instance that serves it
Metadata(uri) ==
    [version : {"0.1"},
     inbox : {uri, NoValue},
     outbox : {uri},
     trustMode : {"open", "closed", NoValue}]

DiscoveryOutcome(uri) ==
    [kind : {"ok"}, metadata : Metadata(uri)]
        \cup [kind : {"non2xx"}]
        \cup [kind : {"throw"}, message : {"fetch failed"}]

\* metadata.federation?.trustMode || 'closed'
TrustModeOf_NoDefault(metadata) == metadata.trustMode

TrustModeOf(metadata) ==
    IF metadata.trustMode = NoValue THEN "closed" ELSE metadata.trustMode

\* discoverInstance after its fetch returned: the new record on success,
\* lastError of an existing record on an exception, nothing on a non-2xx
discoverInstance(known, instanceUri, outcome, now) ==
    CASE outcome.kind = "ok" ->
           MapSet(known, instanceUri,
                  [uri |-> instanceUri,
                   version |-> outcome.metadata.version,
                   inbox |-> outcome.metadata.inbox,
                   outbox |-> outcome.metadata.outbox,
                   trustMode |-> TrustModeOf(outcome.metadata),
                   lastSeen |-> now,
                   lastError |-> NoValue])
      [] outcome.kind = "non2xx" -> known
      [] outcome.kind = "throw" ->
           IF MapHas(known, instanceUri)
           THEN MapSet(known, instanceUri,
                       [MapGet(known, instanceUri) EXCEPT !.lastError = outcome.message])
           ELSE known

\* getMetadata: the federation section of the discovery document this
\* instance serves; a URL is written as the instance and the path
getMetadata_ConfiguredMode(cfg) ==
    IF ~cfg.enabled THEN [enabled |-> FALSE, trustMode |-> cfg.trust.mode]
    ELSE [enabled |-> TRUE,
          inbox |-> <<cfg.instanceUri, "/federation/inbox">>,
          outbox |-> <<cfg.instanceUri, "/federation/outbox">>,
          trustMode |-> cfg.trust.mode]

getMetadata(cfg) ==
    IF ~cfg.enabled THEN [enabled |-> FALSE, trustMode |-> "closed"]
    ELSE [enabled |-> TRUE,
          inbox |-> <<cfg.instanceUri, "/federation/inbox">>,
          outbox |-> <<cfg.instanceUri, "/federation/outbox">>,
          trustMode |-> cfg.trust.mode]

\* what discoverInstance returns: the new record, or null
discoverInstance_Result(known, instanceUri, outcome, now) ==
    IF outcome.kind = "ok"
    THEN MapGet(discoverInstance(known, instanceUri, outcome, now), instanceUri)
    ELSE NoValue

\* AbortSignal.timeout of the discovery fetch and of the inbox push
DISCOVER_TIMEOUT_MS == 10

PUSH_TIMEOUT_MS == 15

----------------------------------------------------------------------------
(* Trust mutations *)

allowInstance_KeepsBlock(cfg, instanceUri) ==
    [cfg EXCEPT !.trust.allowlist = @ \cup {instanceUri}]

allowInstance(cfg, instanceUri) ==
    [cfg EXCEPT !.trust.allowlist = @ \cup {instanceUri},
                !.trust.blocklist = @ \ {instanceUri}]

blockInstance(cfg, instanceUri) ==
    [cfg EXCEPT !.trust.blocklist = @ \cup {instanceUri},
                !.trust.allowlist = @ \ {instanceUri}]

AllowInstance(u) ==
    /\ config' = allowInstance(config, u)
    /\ storage' = TrustPersisted(storage, allowInstance(config, u), knownInstances, u)
    /\ lastCall' = [lastCall EXCEPT ![u] = "allowInstance"]
    /\ lastWrite' = [lastWrite EXCEPT ![u] = "allow"]
    /\ UNCHANGED <<page, backends, clock, knownInstances, discoveries, trustAnswer, inboundVars, outboxVars, queueVars, timerVars>>

BlockInstance(u) ==
    /\ config' = blockInstance(config, u)
    /\ storage' = TrustPersisted(storage, blockInstance(config, u), knownInstances, u)
    /\ lastCall' = [lastCall EXCEPT ![u] = "blockInstance"]
    /\ lastWrite' = [lastWrite EXCEPT ![u] = "block"]
    /\ UNCHANGED <<page, backends, clock, knownInstances, discoveries, trustAnswer, inboundVars, outboxVars, queueVars, timerVars>>

\* subscribeToInstance and the discover route up to the await of the fetch
SubscribeCall(u) ==
    /\ ~\E d \in discoveries : d.uri = u
    /\ discoveries' = discoveries \cup {[uri |-> u, caller |-> "subscribeToInstance",
                                      deadline |-> clock + DISCOVER_TIMEOUT_MS]}
    /\ lastCall' = [lastCall EXCEPT ![u] = "subscribeToInstance"]
    /\ UNCHANGED <<storeVars, clock, config, knownInstances, trustAnswer, lastWrite, inboundVars, outboxVars, queueVars, timerVars>>

DiscoverCall(u) ==
    /\ ~\E d \in discoveries : d.uri = u
    /\ discoveries' = discoveries \cup {[uri |-> u, caller |-> "discover",
                                      deadline |-> clock + DISCOVER_TIMEOUT_MS]}
    /\ UNCHANGED <<storeVars, clock, config, knownInstances, trustAnswer, lastCall, lastWrite, inboundVars, outboxVars, queueVars, timerVars>>

\* a caller asks trustsInstance
TrustsInstanceCall(u) ==
    /\ trustAnswer' = [uri |-> u, enabled |-> config.enabled, trust |-> config.trust,
                        result |-> trustsInstance(config, u)]
    /\ UNCHANGED <<storeVars, clock, config, knownInstances, discoveries, lastCall, lastWrite, inboundVars, outboxVars, queueVars, timerVars>>

----------------------------------------------------------------------------
(* Signature codec.  A signing key is named by the instance that owns it   *)
(* and the address recovered from a signature by the owner of the key      *)
(* that made it.                                                           *)

EventTypes == {"PostCreated", "PostDeleted", "CommentCreated", "CommentDeleted"}

Objects == {"post1", "post2"}

Keys == Uris \cup {"mallory"}

\* the address ECDSA recovery yields for a well-formed signature of
\* another message: some address, of no known key
UnrelatedAddress == "0xunrelated"

\* `${type}|${origin}|${timestamp}|${JSON.stringify(object)}`
Message(event) == <<event.type, event.origin, event.timestamp, event.object>>

signMessageSync(key, message) ==
    [wellFormed |-> TRUE, signer |-> key, message |-> message]

MalformedSignature == [wellFormed |-> FALSE, signer |-> NoValue, message |-> <<>>]

\* signEvent with a signing key configured (without one it throws)
signEvent(cfg, unsigned) ==
    [type |-> unsigned.type, origin |-> unsigned.origin,
     timestamp |-> unsigned.timestamp, object |-> unsigned.object,
     signature |-> signMessageSync(cfg.signingKey, Message(unsigned))]

\* ethers.verifyMessage throws on a malformed signature and recovers an
\* address from any well-formed one
verifyEventSignature(event) ==
    IF ~event.signature.wellFormed THEN NoValue
    ELSE IF event.signature.message = Message(event) THEN event.signature.signer
    ELSE UnrelatedAddress

----------------------------------------------------------------------------
(* Inbound processing *)

\* the function onEvent returns: it removes the first registration of the
\* listener, if there is one
Unsubscribed(listeners, listener) ==
    IF \E i \in 1..Len(listeners) : listeners[i] = listener
    THEN RemoveAt(listeners, CHOOSE i \in 1..Len(listeners) :
                                 /\ listeners[i] = listener
                                 /\ \A j \in 1..(i - 1) : listeners[j] # listener)
    ELSE listeners

\* eventListeners.forEach: the indices up to the length the array had when
\* the loop started are visited in order, each read from the array as it is
\* then, and an index the array no longer has is passed over.  A listener
\* that throws is caught and the next index is visited; a listener may call
\* the function onEvent returned for it before it returns or throws.
RECURSIVE ForEach(_, _, _, _)
ForEach(listeners, k, len, invoked) ==
    IF k > len THEN [listeners |-> listeners, invoked |-> invoked]
    ELSE IF k > Len(listeners) THEN ForEach(listeners, k + 1, len, invoked)
    ELSE LET listener == listeners[k]
         IN  ForEach(IF listener.unsubscribes THEN Unsubscribed(listeners, listener)
                     ELSE listeners,
                     k + 1, len, Append(invoked, listener.id))

\* the ids of the listeners called, in order
NotifyListeners(listeners) == ForEach(listeners, 1, Len(listeners), <<>>).invoked

\* the array of listeners once a call of processInboundEvent has returned
ListenersAfter(listeners, result) ==
    IF result.accepted THEN ForEach(listeners, 1, Len(listeners), <<>>).listeners
    ELSE listeners

processInboundEvent_OriginBeforeTrust(cfg, listeners, event, sourceInstance) ==
    IF ~cfg.enabled
    THEN [accepted |-> FALSE, reason |-> "Federation disabled", invoked |-> <<>>]
    ELSE IF event.origin # sourceInstance
    THEN [accepted |-> FALSE, reason |-> "Origin mismatch", invoked |-> <<>>]
    ELSE IF ~trustsInstance(cfg, sourceInstance)
    THEN [accepted |-> FALSE, reason |-> "Instance not trusted", invoked |-> <<>>]
    ELSE IF verifyEventSignature(event) = NoValue
    THEN [accepted |-> FALSE, reason |-> "Invalid signature", invoked |-> <<>>]
    ELSE [accepted |-> TRUE, reason |-> NoValue, invoked |-> NotifyListeners(listeners)]

processInboundEvent_NotifiesFirst(cfg, listeners, event, sourceInstance) ==
    IF ~cfg.enabled
    THEN [accepted |-> FALSE, reason |-> "Federation disabled", invoked |-> <<>>]
    ELSE IF ~trustsInstance(cfg, sourceInstance)
    THEN [accepted |-> FALSE, reason |-> "Instance not trusted", invoked |-> <<>>]
    ELSE IF event.origin # sourceInstance
    THEN [accepted |-> FALSE, reason |-> "Origin mismatch", invoked |-> <<>>]
    ELSE IF verifyEventSignature(event) = NoValue
    THEN [accepted |-> FALSE, reason |-> "Invalid signature",
          invoked |-> NotifyListeners(listeners)]
    ELSE [accepted |-> TRUE, reason |-> NoValue, invoked |-> NotifyListeners(listeners)]

processInboundEvent(cfg, listeners, event, sourceInstance) ==
    IF ~cfg.enabled
    THEN [accepted |-> FALSE, reason |-> "Federation disabled", invoked |-> <<>>]
    ELSE IF ~trustsInstance(cfg, sourceInstance)
    THEN [accepted |-> FALSE, reason |-> "Instance not trusted", invoked |-> <<>>]
    ELSE IF event.origin # sourceInstance
    THEN [accepted |-> FALSE, reason |-> "Origin mismatch", invoked |-> <<>>]
    ELSE IF verifyEventSignature(event) = NoValue
    THEN [accepted |-> FALSE, reason |-> "Invalid signature", invoked |-> <<>>]
    ELSE [accepted |-> TRUE, reason |-> NoValue, invoked |-> NotifyListeners(listeners)]

\* POST /federation/inbox: the status of the response and the
\* processInboundEvent call it made, if it made one
NoCall == [called |-> FALSE]

Call(cfg, listeners, event, sourceInstance, result) ==
    [called |-> TRUE, enabled |-> cfg.enabled, mode |-> cfg.trust.mode,
     allowed |-> sourceInstance \in cfg.trust.allowlist,
     blocked |-> sourceInstance \in cfg.trust.blocklist,
     listeners |-> Len(listeners), event |-> event, sourceInstance |-> sourceInstance,
     accepted |-> result.accepted, reason |-> result.reason, invoked |-> result.invoked]

InboxRoute(cfg, listeners, body) ==
    IF ~cfg.enabled
    THEN [status |-> 403, message |-> "Federation is disabled on this instance",
          call |-> NoCall]
    ELSE IF "event" \notin DOMAIN body \/ "sourceInstance" \notin DOMAIN body
    THEN [status |-> 400, message |-> "Missing event or sourceInstance", call |-> NoCall]
    ELSE LET result == processInboundEvent(cfg, listeners, body.event, body.sourceInstance)
         IN  IF ~result.accepted
             THEN [status |-> 403, message |-> result.reason,
                   call |-> Call(cfg, listeners, body.event, body.sourceInstance, result)]
             ELSE [status |-> 202, message |-> "accepted",
                   call |-> Call(cfg, listeners, body.event, body.sourceInstance, result)]

\* the envelopes a remote caller can send: signed by any key, signed over
\* another object, or with a malformed signature
Unsigned == [type : EventTypes, origin : Uris, timestamp : {0}, object : Objects]

OtherObject(object) == CHOOSE o \in Objects : o # object

SignaturesFor(unsigned) ==
    {signMessageSync(k, Message(unsigned)) : k \in Keys}
        \cup {signMessageSync(unsigned.origin,
                              Message([unsigned EXCEPT !.object = OtherObject(@)]))}
        \cup {MalformedSignature}

WithSignature(unsigned, signature) ==
    [type |-> unsigned.type, origin |-> unsigned.origin,
     timestamp |-> unsigned.timestamp, object |-> unsigned.object,
     signature |-> signature]

Envelopes == UNION {{WithSignature(u, sg) : sg \in SignaturesFor(u)} : u \in Unsigned}

\* the bodies of the requests a remote caller can post to the inbox,
\* among them the body pushToInstance sends
PushBody(event) == [events |-> <<event>>]

Bodies ==
    [event : Envelopes, sourceInstance : Uris]
        \cup {PushBody(e) : e \in Envelopes}
        \cup [event : Envelopes]

ProcessInboundEventCall(event, sourceInstance) ==
    LET result == processInboundEvent(config, eventListeners, event, sourceInstance)
    IN  /\ inbound' = Call(config, eventListeners, event, sourceInstance, result)
        /\ eventListeners' = ListenersAfter(eventListeners, result)
        /\ UNCHANGED <<storeVars, clock, config, knownInstances, discoveries, trustVars,
                       response, outboxVars, queueVars, timerVars>>

InboxPost(body) ==
    LET r == InboxRoute(config, eventListeners, body)
    IN  /\ response' = [status |-> r.status, message |-> r.message, body |-> body]
        /\ inbound' = IF r.call.called THEN r.call ELSE inbound
        /\ eventListeners' = IF r.call.called
                             THEN ListenersAfter(eventListeners, r.call)
                             ELSE eventListeners
        /\ UNCHANGED <<storeVars, clock, config, knownInstances, discoveries, trustVars,
                       outboxVars, queueVars, timerVars>>

----------------------------------------------------------------------------
(* Outbox log and delivery queue *)

MAX_RETRY_ATTEMPTS == 5

\* 1s, 5s, 30s, 2m, 10m
RETRY_BACKOFF_MS == <<1, 5, 30, 120, 600>>

\* terminal attempts are kept for one hour
RETENTION_MS == 3600

\* startPushProcessor(5000)
PUSH_INTERVAL_MS == 5

\* new Date(0), long before the engine started
DateZero == -1000000

\* the id `${instanceUri}/outbox/${n}` is written n
EventIds == 1..MaxEvents

\* the key `${instanceUri}:${eventId}`
DeliveryKey(instanceUri, eventId) == <<instanceUri, eventId>>

DeliveryKeys == Peers \X EventIds

----------------------------------------------------------------------------
(* Loading the engine from its storage *)

\* the largest sequence number among ids; 0 if there is none
MaxId(ids) ==
    IF ids = {} THEN 0
    ELSE LET tops == {m \in ids : (m + 1) \notin ids}
         IN  CHOOSE m \in tops : \A x \in tops : x <= m

\* one day, the window of pending deliveries the constructor asks for
LOAD_WINDOW_MS == 86400

\* loadFromStorage on a new engine with configuration cfg: the known
\* instances with their allow and block marks, the first OUTBOX_CAP outbox
\* events by created with the counter at the largest number loaded, and
\* the pending deliveries due within a day by nextAttempt
loadFromStorage(cfg, store, now, outboxTie, deliveryTie) ==
    LET instances == getInstances(store)
        outboxEvents == storage_getOutboxEvents(store, OUTBOX_CAP, outboxTie)
        deliveries == getPendingDeliveries(store, now + LOAD_WINDOW_MS, deliveryTie)
    IN  [config |->
             [cfg EXCEPT
                 !.trust.allowlist = @ \cup
                     {instances[i].key :
                         i \in {j \in 1..Len(instances) : instances[j].value.isAllowed}},
                 !.trust.blocklist = @ \cup
                     {instances[i].key :
                         i \in {j \in 1..Len(instances) : instances[j].value.isBlocked}}],
         knownInstances |->
             [i \in 1..Len(instances) |->
                 LET inst == instances[i].value
                 IN  [key |-> inst.uri,
                      value |-> [uri |-> inst.uri, version |-> inst.version,
                                 inbox |-> inst.inbox, outbox |-> inst.outbox,
                                 trustMode |-> inst.trustMode,
                                 lastSeen |-> inst.lastSeen,
                                 lastError |-> inst.lastError]]],
         outboxQueue |->
             [i \in 1..Len(outboxEvents) |->
                 LET evt == outboxEvents[i].value
                 IN  [key |-> evt.id,
                      value |-> [id |-> evt.id, event |-> evt.event,
                                 created |-> evt.created,
                                 delivered |-> evt.deliveredTo]]],
         outboxIdCounter |-> MaxId({outboxEvents[i].key : i \in 1..Len(outboxEvents)}),
         deliveryQueue |->
             [i \in 1..Len(deliveries) |->
                 LET del == deliveries[i].value
                 IN  [key |-> del.key,
                      value |-> [instanceUri |-> del.instanceUri,
                                 eventId |-> del.eventId,
                                 attemptCount |-> del.attemptCount,
                                 lastAttempt |-> del.lastAttempt,
                                 nextAttempt |-> del.nextAttempt,
                                 status |-> del.status,
                                 lastError |-> del.lastError]]]]

\* publishEvent, for an enabled engine with a signing key: the outbox
\* with the new signed event, pruned to the last OUTBOX_CAP events
publishEvent(outbox, cfg, eventId, type, object, now) ==
    LET event == signEvent(cfg, [type |-> type, origin |-> cfg.instanceUri,
                                 timestamp |-> now, object |-> object])
        stored == MapSet(outbox, eventId,
                         [id |-> eventId, event |-> event, created |-> now,
                          delivered |-> {}])
    IN  IF Len(stored) > OUTBOX_CAP
        THEN SubSeq(stored, Len(stored) - OUTBOX_CAP + 1, Len(stored))
        ELSE stored

\* the ids publishEvent removes from the outbox, oldest first
PrunedIds(outbox, eventId) ==
    LET stored == IF MapHas(outbox, eventId) THEN outbox
                  ELSE Append(outbox, [key |-> eventId])
    IN  IF Len(stored) > OUTBOX_CAP
        THEN {stored[i].key : i \in 1..(Len(stored) - OUTBOX_CAP)}
        ELSE {}

\* publishEvent persists the new event and deletes the pruned ones
PublishedStore(store, outbox, published, eventId) ==
    IF ~store.present THEN store
    ELSE LET saved == persistOutboxEvent(store, MapGet(published, eventId))
             pruned == PrunedIds(outbox, eventId)
         IN  IF pruned = {} THEN saved
             ELSE [saved EXCEPT
                      !.outbox = SelectSeq(@, LAMBDA row : row.key \notin pruned)]

\* no 'since' cursor, no limit, no 'cursor' in the result
NoCursor == 0

DEFAULT_PAGE == 50

MAX_PAGE == 200

getOutboxEvents(outbox, since, limit) ==
    LET max == Min(IF limit = 0 THEN DEFAULT_PAGE ELSE limit, MAX_PAGE)
        skipped == IF since = NoCursor THEN 0
                   ELSE IF MapHas(outbox, since) THEN MapIndex(outbox, since)
                   ELSE Len(outbox)
        events == SubSeq(outbox, skipped + 1, Min(skipped + max, Len(outbox)))
    IN  [events |-> [i \in 1..Len(events) |-> events[i].value.event],
         ids |-> [i \in 1..Len(events) |-> events[i].key],
         cursor |-> IF events = <<>> THEN NoCursor ELSE events[Len(events)].key]

NoPage ==
    [called |-> FALSE, since |-> NoCursor, limit |-> 0, ids |-> <<>>,
     cursor |-> NoCursor, published |-> FALSE, known |-> FALSE, start |-> <<>>]

\* the default targets of queueForDelivery: the known instances that
\* are trusted, in the order of the map
RECURSIVE TrustedKnown(_, _)
TrustedKnown(known, cfg) ==
    IF known = <<>> THEN <<>>
    ELSE IF trustsInstance(cfg, Head(known).key)
         THEN <<Head(known).key>> \o TrustedKnown(Tail(known), cfg)
         ELSE TrustedKnown(Tail(known), cfg)

NewAttempt(instanceUri, eventId, now) ==
    [instanceUri |-> instanceUri, eventId |-> eventId, attemptCount |-> 0,
     lastAttempt |-> DateZero, nextAttempt |-> now, status |-> "pending",
     lastError |-> NoValue]

RECURSIVE queueForDelivery_Requeues(_, _, _, _)
queueForDelivery_Requeues(queue, eventId, targets, now) ==
    IF targets = <<>> THEN queue
    ELSE LET key == DeliveryKey(Head(targets), eventId)
         IN  queueForDelivery_Requeues(
                 MapSet(queue, key, NewAttempt(Head(targets), eventId, now)),
                 eventId, Tail(targets), now)

RECURSIVE queueForDelivery(_, _, _, _)
queueForDelivery(queue, eventId, targets, now) ==
    IF targets = <<>> THEN queue
    ELSE LET key == DeliveryKey(Head(targets), eventId)
         IN  queueForDelivery(
                 IF MapHas(queue, key) THEN queue
                 ELSE MapSet(queue, key, NewAttempt(Head(targets), eventId, now)),
                 eventId, Tail(targets), now)

\* queueForDelivery persists the attempts it creates, in their order
RECURSIVE EnqueuedStore(_, _, _)
EnqueuedStore(store, queue, queued) ==
    IF Len(queued) <= Len(queue) THEN store
    ELSE LET entry == queued[Len(queue) + 1]
         IN  EnqueuedStore(persistDeliveryAttempt(store, entry.key, entry.value),
                           Append(queue, entry), queued)

\* The push results recorded on a queue entry since it was created: how
\* many, which of them was the first success (0 if none), and the 'now'
\* of the invocation that recorded the last one
NoHistory == [pushes |-> 0, firstOk |-> 0, now |-> DateZero]

Recorded(h, ok, now) ==
    [pushes |-> h.pushes + 1,
     firstOk |-> IF h.firstOk = 0 /\ ok THEN h.pushes + 1 ELSE h.firstOk,
     now |-> now]

\* the entries queueForDelivery created start a new history
EnqueuedHistory(history, queue, queued) ==
    [k \in DeliveryKeys |->
        IF MapHas(queued, k) /\ ~MapHas(queue, k) THEN NoHistory ELSE history[k]]

\* what processDeliveryQueue records on the attempt when its push returned
Success == [success |-> TRUE, error |-> NoValue]

Failure(error) == [success |-> FALSE, error |-> error]

recordResult_BackoffByCount(attempt, result, now) ==
    LET counted == [attempt EXCEPT !.attemptCount = @ + 1, !.lastAttempt = now]
    IN  IF result.success THEN [counted EXCEPT !.status = "delivered"]
        ELSE IF counted.attemptCount >= MAX_RETRY_ATTEMPTS
             THEN [counted EXCEPT !.lastError = result.error, !.status = "failed"]
             ELSE [counted EXCEPT
                      !.lastError = result.error,
                      !.nextAttempt = now + RETRY_BACKOFF_MS[
                          Min(counted.attemptCount, Len(RETRY_BACKOFF_MS) - 1) + 1]]

recordResult(attempt, result, now) ==
    LET counted == [attempt EXCEPT !.attemptCount = @ + 1, !.lastAttempt = now]
    IN  IF result.success THEN [counted EXCEPT !.status = "delivered"]
        ELSE IF counted.attemptCount >= MAX_RETRY_ATTEMPTS
             THEN [counted EXCEPT !.lastError = result.error, !.status = "failed"]
             ELSE [counted EXCEPT
                      !.lastError = result.error,
                      !.nextAttempt = now + RETRY_BACKOFF_MS[
                          Min(counted.attemptCount - 1, Len(RETRY_BACKOFF_MS) - 1) + 1]]

----------------------------------------------------------------------------
(* processDeliveryQueue.  An invocation runs from one await to the next    *)
(* without interruption; while it awaits a fetch, timers, requests and the *)
(* continuations of other invocations run.  Its iterator over the queue is *)
(* live: pos is the number of entries it has passed, and the entry it      *)
(* awaits a push for is the one at index pos unless that entry has been    *)
(* deleted from the map by another invocation (detached).                  *)

Idle == [active |-> FALSE]

Cycles == 1..MaxCycles

NoAttempt == NewAttempt(NoValue, 0, 0)

\* pushToInstance discovers the instance unless it is known with an inbox
NeedsDiscovery(known, instanceUri) ==
    \/ ~MapHas(known, instanceUri)
    \/ MapGet(known, instanceUri).inbox = NoValue

\* the loop passes an attempt that is not pending or not yet due
IsDue_RetriesFailed(attempt, now) ==
    attempt.status # "delivered" /\ attempt.nextAttempt <= now

IsDue_NotYetDue(attempt, now) ==
    attempt.status = "pending" /\ attempt.nextAttempt > now

IsDue(attempt, now) == attempt.status = "pending" /\ attempt.nextAttempt <= now

\* The for loop over the queue from the iterator position up to the next
\* await or the end: entries that are not pending or not due are passed,
\* entries without their outbox event are deleted, and a push to an
\* instance that is not trusted fails without an await.
RECURSIVE Run(_, _, _)
Run(m, now, known) ==
    IF m.pos >= Len(m.queue) THEN [m EXCEPT !.suspend = "none"]
    ELSE LET i == m.pos + 1
             key == m.queue[i].key
             attempt == m.queue[i].value
         IN  IF ~IsDue(attempt, now)
             THEN Run([m EXCEPT !.pos = i], now, known)
             ELSE IF ~MapHas(outboxQueue, attempt.eventId)
             THEN Run([m EXCEPT !.queue = RemoveAt(@, i),
                                !.deleted = Append(@, [index |-> i,
                                                       attempt |-> attempt])],
                      now, known)
             ELSE IF ~trustsInstance(config, attempt.instanceUri)
             THEN LET recorded == recordResult(attempt, Failure("Instance not trusted"),
                                               now)
                  IN  Run([m EXCEPT
                              !.pos = i,
                              !.queue[i].value = recorded,
                              !.store = persistDeliveryAttempt(@, key, recorded),
                              !.history[key] = Recorded(@, FALSE, now)],
                          now, known)
             ELSE IF NeedsDiscovery(known, attempt.instanceUri)
             THEN [m EXCEPT !.pos = i, !.suspend = "discovering"]
             ELSE [m EXCEPT !.pos = i, !.suspend = "posting"]

\* the sweep after the loop: terminal attempts last attempted more than
\* the retention window before now are deleted, from the store as well
RECURSIVE Sweep(_, _, _)
Sweep(m, i, now) ==
    IF i > Len(m.queue) THEN m
    ELSE LET attempt == m.queue[i].value
         IN  IF attempt.status # "pending" /\ attempt.lastAttempt < now - RETENTION_MS
             THEN Sweep([m EXCEPT !.queue = RemoveAt(@, i),
                                  !.store = deleteDeliveryAttempt(@, m.queue[i].key),
                                  !.deleted = Append(@, [index |-> i,
                                                         attempt |-> attempt])],
                        i, now)
             ELSE Sweep(m, i + 1, now)

\* the loop from position pos, and the sweep if the loop ends
RunFrom(queue, history, store, pos, now, known) ==
    LET m == Run([queue |-> queue, history |-> history, store |-> store, pos |-> pos,
                  deleted |-> <<>>, suspend |-> "none"], now, known)
    IN  IF m.suspend = "none" THEN Sweep(m, 1, now) ELSE m

\* the iterator and the awaited attempt of another invocation after the
\* entries in deleted have been removed from the map, one after the other
RECURSIVE Adjust(_, _)
Adjust(c, deleted) ==
    IF deleted = <<>> \/ ~c.active THEN c
    ELSE LET d == Head(deleted)
         IN  Adjust(IF ~c.detached /\ c.pos = d.index
                    THEN [c EXCEPT !.detached = TRUE, !.attempt = d.attempt,
                                   !.pos = d.index - 1]
                    ELSE IF c.pos >= d.index THEN [c EXCEPT !.pos = @ - 1]
                    ELSE c,
                    Tail(deleted))

NoInstance ==
    [uri |-> NoValue, version |-> NoValue, inbox |-> NoValue, outbox |-> NoValue,
     trustMode |-> NoValue, lastSeen |-> DateZero, lastError |-> NoValue]

\* The invocation c after RunFrom returned m: ended, or awaiting the
\* fetch of a discovery or of a push.  It holds the outbox event, the
\* attempt and, while it posts, the instance record, as objects: while
\* they are in their maps the maps have their values; delivered is the
\* delivered set of the outbox event once it is pruned from the map,
\* instance the record once it is replaced in the map (stale), attempt
\* the attempt once it is deleted from the map (detached).  Invocations
\* that hold the same object out of its map are in the same group.
Suspended(m, now, phase) ==
    LET outboxEvent == MapGet(outboxQueue, m.queue[m.pos].value.eventId)
    IN  [active |-> TRUE, now |-> now, pos |-> m.pos, phase |-> phase,
         key |-> m.queue[m.pos].key,
         event |-> outboxEvent.event, created |-> outboxEvent.created,
         delivered |-> {},
         deadline |-> clock + (IF phase = "discovering" THEN DISCOVER_TIMEOUT_MS
                               ELSE PUSH_TIMEOUT_MS),
         stale |-> FALSE, instance |-> NoInstance, staleGroup |-> {},
         detached |-> FALSE, attempt |-> NoAttempt, attemptGroup |-> {}]

CyclesAfter(cs, c, m, now) ==
    LET adjusted == [x \in Cycles |-> IF x = c THEN cs[x] ELSE Adjust(cs[x], m.deleted)]
        detachedNow == {x \in Cycles \ {c} :
                           cs[x].active /\ adjusted[x].detached /\ ~cs[x].detached}
    IN  [x \in Cycles |->
            IF x = c
            THEN IF m.suspend = "none" THEN Idle ELSE Suspended(m, now, m.suspend)
            ELSE IF x \in detachedNow
            THEN [adjusted[x] EXCEPT
                     !.attemptGroup = {y \in detachedNow : cs[y].key = cs[x].key}]
            ELSE adjusted[x]]

\* a successful discovery replaces the record of the instance in the map:
\* the invocations that await a push to that instance hold the old record
MarkStale(cs, known, instanceUri) ==
    LET group == {x \in Cycles : /\ cs[x].active
                                 /\ cs[x].phase = "posting"
                                 /\ cs[x].key[1] = instanceUri
                                 /\ ~cs[x].stale}
    IN  [x \in Cycles |->
            IF x \in group
            THEN [cs[x] EXCEPT !.stale = TRUE, !.staleGroup = group,
                               !.instance = MapGet(known, instanceUri)]
            ELSE cs[x]]

AfterDiscovery(cs, known, instanceUri, outcome) ==
    IF outcome.kind = "ok" THEN MarkStale(cs, known, instanceUri) ELSE cs

\* discoverInstance persists the record it has stored
DiscoveredStore(store, cfg, known, instanceUri, outcome) ==
    IF outcome.kind = "ok"
    THEN persistInstance(store, cfg, MapGet(known, instanceUri))
    ELSE store

\* an invocation that holds an outbox event pruned from the map keeps
\* the object, with the delivered set it had
Detach(cs, outbox, published) ==
    [x \in Cycles |->
        IF /\ cs[x].active
           /\ MapHas(outbox, cs[x].key[2])
           /\ ~MapHas(published, cs[x].key[2])
        THEN [cs[x] EXCEPT !.delivered = MapGet(outbox, cs[x].key[2]).delivered]
        ELSE cs[x]]

\* the timer fires: a new invocation starts, whether or not one is in progress
FreeCycle == CHOOSE c \in Cycles : ~cycles[c].active /\ \A x \in 1..(c - 1) : cycles[x].active

TimerFire ==
    /\ pushInterval
    /\ clock >= timerNext
    /\ (clock - timerNext) % PUSH_INTERVAL_MS = 0
    /\ \E c \in Cycles : ~cycles[c].active
    /\ LET m == RunFrom(deliveryQueue, pushHistory, storage, 0, clock, knownInstances)
       IN  /\ deliveryQueue' = m.queue
           /\ pushHistory' = m.history
           /\ storage' = m.store
           /\ cycles' = CyclesAfter(cycles, FreeCycle, m, clock)
    /\ timerNext' = clock + PUSH_INTERVAL_MS
    /\ UNCHANGED <<page, backends, clock, config, knownInstances, discoveries, trustVars, inboundVars,
                   outboxVars, lastPush, pushInterval>>

\* the push of invocation c returned result: the attempt it holds is
\* updated and persisted, a success is recorded on the outbox event it
\* holds, which is persisted, and the loop goes on
ResumeAfter_StopsOnFailure(result, queue, history, store, pos, now, known) ==
    IF result.success THEN RunFrom(queue, history, store, pos, now, known)
    ELSE RunFrom(queue, history, store, Len(queue), now, known)

ResumeAfter(result, queue, history, store, pos, now, known) ==
    RunFrom(queue, history, store, pos, now, known)

Continued(c, cs, result, known, store) ==
    LET cyc == cycles[c]
        eventId == cyc.key[2]
        recorded == recordResult(IF cyc.detached THEN cyc.attempt
                                 ELSE deliveryQueue[cyc.pos].value,
                                 result, cyc.now)
        queue == IF cyc.detached THEN deliveryQueue
                 ELSE [deliveryQueue EXCEPT ![cyc.pos].value = recorded]
        history == IF cyc.detached THEN pushHistory
                   ELSE [pushHistory EXCEPT
                            ![cyc.key] = Recorded(@, result.success, cyc.now)]
        inOutbox == MapHas(outboxQueue, eventId)
        delivered == (IF inOutbox THEN MapGet(outboxQueue, eventId).delivered
                      ELSE cyc.delivered) \cup {cyc.key[1]}
        saved == IF result.success
                 THEN persistOutboxEvent(store,
                          [id |-> eventId, event |-> cyc.event,
                           created |-> cyc.created, delivered |-> delivered])
                 ELSE store
        m == ResumeAfter(result, queue, history,
                         persistDeliveryAttempt(saved, cyc.key, recorded),
                         cyc.pos, cyc.now, known)
        shared == [x \in Cycles |->
                      IF x = c \/ ~cs[x].active THEN cs[x]
                      ELSE [cs[x] EXCEPT
                               !.delivered =
                                   IF result.success /\ ~inOutbox /\ cs[x].key[2] = eventId
                                   THEN delivered ELSE @,
                               !.attempt =
                                   IF /\ cyc.detached
                                      /\ cs[x].detached
                                      /\ cs[x].key = cyc.key
                                      /\ cs[x].attemptGroup = cyc.attemptGroup
                                   THEN recorded ELSE @]]
    IN  [deliveryQueue |-> m.queue,
         pushHistory |-> m.history,
         storage |-> m.store,
         cycles |-> CyclesAfter(shared, c, m, cyc.now),
         knownInstances |-> known,
         outboxQueue |->
             IF result.success /\ MapHas(outboxQueue, eventId)
             THEN MapSet(outboxQueue, eventId,
                         [MapGet(outboxQueue, eventId) EXCEPT
                             !.delivered = @ \cup {cyc.key[1]}])
             ELSE outboxQueue]

Continue(c, cs, result, known, store) ==
    \E after \in {Continued(c, cs, result, known, store)} :
        /\ deliveryQueue' = after.deliveryQueue
        /\ pushHistory' = after.pushHistory
        /\ storage' = after.storage
        /\ cycles' = after.cycles
        /\ knownInstances' = after.knownInstances
        /\ outboxQueue' = after.outboxQueue

\* the discovery fetch of pushToInstance returned
PushDiscoveryReturn(c, outcome) ==
    /\ cycles[c].active
    /\ cycles[c].phase = "discovering"
    /\ LET uri == cycles[c].key[1]
           known == discoverInstance(knownInstances, uri, outcome, clock)
           cs == AfterDiscovery(cycles, knownInstances, uri, outcome)
           store == DiscoveredStore(storage, config, known, uri, outcome)
       IN  IF outcome.kind # "ok"
           THEN Continue(c, cs, Failure("Could not discover instance"), known, store)
           ELSE IF MapGet(known, uri).inbox = NoValue
           THEN Continue(c, cs, Failure("Instance does not accept federation inbox"),
                         known, store)
           ELSE /\ cycles' = [cs EXCEPT ![c].phase = "posting",
                                        ![c].deadline = clock + PUSH_TIMEOUT_MS]
                /\ knownInstances' = known
                /\ storage' = store
                /\ UNCHANGED <<deliveryQueue, pushHistory, outboxQueue>>
    /\ UNCHANGED <<page, backends, clock, config, discoveries, trustVars, inboundVars,
                   outboxIdCounter, lastPublish, lastPush, timerVars>>

\* the answers to the POST of the event to the inbox
HttpError(status) ==
    CASE status = 400 -> "HTTP 400"
      [] status = 403 -> "HTTP 403"
      [] OTHER -> "HTTP 500"

PushOutcome ==
    [kind : {"ok"}]
        \cup [kind : {"status"}, status : {500}]
        \cup [kind : {"throw"}, message : {"fetch failed"}]

\* pushToInstance after its POST returned: the result, and the update
\* of the instance record it holds
PushResult(outcome) ==
    CASE outcome.kind = "ok" -> Success
      [] outcome.kind = "status" -> Failure(HttpError(outcome.status))
      [] outcome.kind = "throw" -> Failure(outcome.message)

\* the instance record the invocation holds, after pushToInstance updated it
PushedRecord(known, cyc, outcome, now) ==
    LET instance == IF cyc.stale THEN cyc.instance ELSE MapGet(known, cyc.key[1])
    IN  CASE outcome.kind = "ok" ->
               [instance EXCEPT !.lastSeen = now, !.lastError = NoValue]
          [] outcome.kind = "throw" -> [instance EXCEPT !.lastError = outcome.message]
          [] OTHER -> instance

PushedInstance(known, cyc, outcome, now) ==
    IF cyc.stale \/ outcome.kind = "status" THEN known
    ELSE MapSet(known, cyc.key[1], PushedRecord(known, cyc, outcome, now))

\* pushToInstance persists the record it updated
PushedStore(store, cfg, known, cyc, outcome, now) ==
    IF outcome.kind = "status" THEN store
    ELSE persistInstance(store, cfg, PushedRecord(known, cyc, outcome, now))

\* the other invocations that hold the same replaced record see the update
PushedCycles(cs, c, known, outcome, now) ==
    [x \in Cycles |->
        IF /\ x # c
           /\ cs[x].active
           /\ cs[c].stale
           /\ cs[x].stale
           /\ cs[x].key[1] = cs[c].key[1]
           /\ cs[x].staleGroup = cs[c].staleGroup
        THEN [cs[x] EXCEPT !.instance = PushedRecord(known, cs[c], outcome, now)]
        ELSE cs[x]]

PostReturn(c, outcome) ==
    /\ cycles[c].active
    /\ cycles[c].phase = "posting"
    /\ Continue(c, PushedCycles(cycles, c, knownInstances, outcome, clock),
                PushResult(outcome),
                PushedInstance(knownInstances, cycles[c], outcome, clock),
                PushedStore(storage, config, knownInstances, cycles[c], outcome, clock))
    /\ UNCHANGED <<page, backends, clock, config, discoveries, trustVars, inboundVars,
                   outboxIdCounter, lastPublish, lastPush, timerVars>>

\* the body pushToInstance posts, with the X-ASP-Origin header
PushRequest(cfg, event) ==
    [headers |-> [origin |-> cfg.instanceUri], body |-> PushBody(event)]

\* the configurations of a peer that runs this engine and serves the
\* inbox route, with one listener registered
PeerConfig(instanceUri) ==
    [enabled : {TRUE}, instanceUri : {instanceUri},
     trust : [mode : {"open"}, allowlist : {{}}, blocklist : {{}}],
     signingKey : {instanceUri}]

PeerListeners == <<[id |-> 1, throws |-> FALSE, unsubscribes |-> FALSE]>>

\* the POST reaches the inbox route of a peer that runs this engine
PostReachesEngine(c, peer) ==
    /\ cycles[c].active
    /\ cycles[c].phase = "posting"
    /\ LET request == PushRequest(config, cycles[c].event)
           r == InboxRoute(peer, PeerListeners, request.body)
           outcome == IF r.status \in 200..299 THEN [kind |-> "ok"]
                      ELSE [kind |-> "status", status |-> r.status]
       IN  /\ Continue(c, PushedCycles(cycles, c, knownInstances, outcome, clock),
                       PushResult(outcome),
                       PushedInstance(knownInstances, cycles[c], outcome, clock),
                       PushedStore(storage, config, knownInstances, cycles[c], outcome,
                                   clock))
           /\ lastPush' = [pushed |-> TRUE, key |-> cycles[c].key, peer |-> peer,
                           status |-> r.status, call |-> r.call,
                           attemptStatus |-> recordResult(
                               IF cycles[c].detached THEN cycles[c].attempt
                               ELSE deliveryQueue[cycles[c].pos].value,
                               PushResult(outcome), cycles[c].now).status]
    /\ UNCHANGED <<page, backends, clock, config, discoveries, trustVars, inboundVars,
                   outboxIdCounter, lastPublish, timerVars>>

\* the fetch of subscribeToInstance or of the discover route returns:
\* discoverInstance finishes, and subscribeToInstance allows the instance
\* unless discovery failed or the peer is closed
DiscoveryReturn(d, outcome) ==
    LET known == discoverInstance(knownInstances, d.uri, outcome, clock)
        subscribed == /\ d.caller = "subscribeToInstance"
                      /\ outcome.kind = "ok"
                      /\ MapGet(known, d.uri).trustMode # "closed"
    IN  /\ d \in discoveries
        /\ discoveries' = discoveries \ {d}
        /\ knownInstances' = known
        /\ cycles' = AfterDiscovery(cycles, knownInstances, d.uri, outcome)
        /\ config' = IF subscribed THEN allowInstance(config, d.uri) ELSE config
        /\ storage' =
               LET store == DiscoveredStore(storage, config, known, d.uri, outcome)
               IN  IF subscribed
                   THEN persistInstance(store, allowInstance(config, d.uri),
                                        MapGet(known, d.uri))
                   ELSE store
        /\ lastWrite' = IF subscribed THEN [lastWrite EXCEPT ![d.uri] = "allow"]
                         ELSE lastWrite
        /\ UNCHANGED <<page, backends, clock, trustAnswer, lastCall, inboundVars, outboxVars,
                       deliveryQueue, pushHistory, lastPush, timerVars>>

----------------------------------------------------------------------------
(* Publishing, enqueueing, the timer and the clock *)

PublishResult(ok, eventId, error) == [ok |-> ok, eventId |-> eventId, error |-> error]

\* publishEvent throws 'Federation is not enabled' before anything else
ThrowsNotEnabled_Never(cfg) == FALSE

ThrowsNotEnabled(cfg) == ~cfg.enabled

\* signEvent throws 'No signing key configured for federation'
ThrowsNoKey_Never(cfg) == FALSE

ThrowsNoKey(cfg) == cfg.signingKey = NoValue

\* publishAndPush: publishEvent throws when federation is disabled, and,
\* after it has taken the next sequence number, when no key is configured
PublishAndPush(type, object) ==
    /\ IF ThrowsNotEnabled(config)
       THEN /\ lastPublish' = PublishResult(FALSE, 0, "Federation is not enabled")
            /\ UNCHANGED <<outboxQueue, outboxIdCounter, deliveryQueue, pushHistory,
                           storage, cycles, page>>
       ELSE IF ThrowsNoKey(config)
       THEN /\ outboxIdCounter' = outboxIdCounter + 1
            /\ lastPublish' = PublishResult(FALSE, 0,
                                  "No signing key configured for federation")
            /\ UNCHANGED <<outboxQueue, deliveryQueue, pushHistory, storage, cycles,
                           page>>
       ELSE LET eventId == outboxIdCounter + 1
                outbox == publishEvent(outboxQueue, config, eventId, type, object, clock)
                queued == IF MapHas(outbox, eventId)
                          THEN queueForDelivery(deliveryQueue, eventId,
                                   TrustedKnown(knownInstances, config), clock)
                          ELSE deliveryQueue
            IN  /\ outboxIdCounter' = eventId
                /\ outboxQueue' = outbox
                /\ deliveryQueue' = queued
                /\ pushHistory' = EnqueuedHistory(pushHistory, deliveryQueue, queued)
                /\ storage' = EnqueuedStore(
                                  PublishedStore(storage, outboxQueue, outbox, eventId),
                                  deliveryQueue, queued)
                /\ cycles' = Detach(cycles, outboxQueue, outbox)
                /\ page' = [page EXCEPT !.published = page.called]
                /\ lastPublish' = PublishResult(TRUE, eventId, NoValue)
    /\ UNCHANGED <<backends, clock, config, knownInstances, discoveries, trustVars,
                   inboundVars, lastPush, timerVars>>

\* queueForDelivery called with an explicit target
QueueForDeliveryCall(eventId, target) ==
    LET queued == queueForDelivery(deliveryQueue, eventId, <<target>>, clock)
    IN  /\ deliveryQueue' = queued
        /\ pushHistory' = EnqueuedHistory(pushHistory, deliveryQueue, queued)
        /\ storage' = EnqueuedStore(storage, deliveryQueue, queued)
        /\ UNCHANGED <<page, backends, clock, config, knownInstances, discoveries, trustVars,
                       inboundVars, outboxVars, cycles, lastPush, timerVars>>

getKnownInstances(known) == [i \in 1..Len(known) |-> known[i].value]

getDeliveryQueueStatus_PendingIsUndelivered(queue) ==
    LET items == [i \in 1..Len(queue) |-> queue[i].value]
        count(status) == Cardinality({i \in 1..Len(items) : items[i].status = status})
    IN  [pending |-> Len(items) - count("delivered"), delivered |-> count("delivered"),
         failed |-> count("failed"), items |-> items]

getDeliveryQueueStatus(queue) ==
    LET items == [i \in 1..Len(queue) |-> queue[i].value]
        count(status) == Cardinality({i \in 1..Len(items) : items[i].status = status})
    IN  [pending |-> count("pending"), delivered |-> count("delivered"),
         failed |-> count("failed"), items |-> items]

\* a caller asks getOutboxEvents; the call is recorded with what it read:
\* whether the cursor was an id of the log, and the page a call without
\* cursor returns
GetOutboxEvents(since, limit) ==
    /\ page' = LET result == getOutboxEvents(outboxQueue, since, limit)
               IN  [called |-> TRUE, since |-> since, limit |-> limit,
                    ids |-> result.ids, cursor |-> result.cursor,
                    published |-> FALSE,
                    known |-> since # NoCursor /\ MapHas(outboxQueue, since),
                    start |-> getOutboxEvents(outboxQueue, NoCursor, limit).ids]
    /\ UNCHANGED <<storage, backends, clock, config, knownInstances, discoveries,
                   trustVars, inboundVars, outboxVars, queueVars, timerVars>>

StartPushProcessor ==
    /\ pushInterval' = TRUE
    /\ timerNext' = clock + PUSH_INTERVAL_MS
    /\ UNCHANGED <<storeVars, clock, config, knownInstances, discoveries, trustVars, inboundVars,
                   outboxVars, queueVars>>

StopPushProcessor_AbortsCycles ==
    /\ pushInterval
    /\ pushInterval' = FALSE
    /\ cycles' = [c \in Cycles |-> Idle]
    /\ UNCHANGED <<storeVars, clock, config, knownInstances, discoveries, trustVars, inboundVars,
                   outboxVars, deliveryQueue, pushHistory, lastPush, timerNext>>

StopPushProcessor ==
    /\ pushInterval
    /\ pushInterval' = FALSE
    /\ UNCHANGED <<storeVars, clock, config, knownInstances, discoveries, trustVars, inboundVars,
                   outboxVars, queueVars, timerNext>>

\* Time passes up to the next moment at which something can change: an
\* attempt becomes due, a terminal attempt leaves the retention window, a
\* fetch times out, or the timer is due and finds work.  A fetch does not
\* outlive its timeout.  The timer fires every PUSH_INTERVAL_MS; a fire
\* that finds no attempt due and nothing to sweep changes nothing, and
\* time passes over it, but not over a fire that finds work.
Deadlines ==
    {cycles[c].deadline : c \in {x \in Cycles : cycles[x].active}}
        \cup {f.deadline : f \in discoveries}

WorkTimes ==
    {deliveryQueue[i].value.nextAttempt :
        i \in {j \in 1..Len(deliveryQueue) : deliveryQueue[j].value.status = "pending"}}
    \cup {deliveryQueue[i].value.lastAttempt + RETENTION_MS + 1 :
        i \in {j \in 1..Len(deliveryQueue) : deliveryQueue[j].value.status # "pending"}}

SetMin(S) == CHOOSE x \in S : \A y \in S : x <= y

\* the first fire of the timer that finds work
FireWithWork ==
    LET work == SetMin(WorkTimes)
    IN  IF work <= timerNext THEN timerNext
        ELSE timerNext
                 + PUSH_INTERVAL_MS
                     * ((work - timerNext + PUSH_INTERVAL_MS - 1) \div PUSH_INTERVAL_MS)

TimerDue == pushInterval /\ WorkTimes # {}

Moments == WorkTimes \cup Deadlines \cup (IF TimerDue THEN {FireWithWork} ELSE {})

Advance(t) ==
    /\ t > clock
    /\ t <= MaxClock
    /\ \A d \in Deadlines : t <= d
    /\ TimerDue => t <= FireWithWork
    /\ clock' = t
    /\ UNCHANGED <<storeVars, config, knownInstances, discoveries, trustVars, inboundVars,
                   outboxVars, queueVars, timerVars>>

\* onEvent and the unsubscribe function it returns
Listeners ==
    {[id |-> i, throws |-> (i % 2 = 0), unsubscribes |-> FALSE] : i \in 1..MaxListeners}

\* listeners that unsubscribe themselves when they are called
OneShotListeners ==
    {[id |-> MaxListeners + i, throws |-> (i % 2 = 0), unsubscribes |-> TRUE] :
         i \in 1..MaxListeners}

OnEvent(listener) ==
    /\ Len(eventListeners) < MaxListeners
    /\ eventListeners' = Append(eventListeners, listener)
    /\ UNCHANGED <<storeVars, clock, config, knownInstances, discoveries, trustVars, inbound,
                   response, outboxVars, queueVars, timerVars>>

Unsubscribe(listener) ==
    /\ \E i \in 1..Len(eventListeners) : eventListeners[i] = listener
    /\ eventListeners' = Unsubscribed(eventListeners, listener)
    /\ UNCHANGED <<storeVars, clock, config, knownInstances, discoveries, trustVars, inbound,
                   response, outboxVars, queueVars, timerVars>>

----------------------------------------------------------------------------
(* Initial states *)

\* createFederationConfig: empty allow and block sets
createFederationConfig(instanceUri, enabled, mode, signingKey) ==
    [enabled |-> enabled, instanceUri |-> instanceUri,
     trust |-> [mode |-> mode, allowlist |-> {}, blocklist |-> {}],
     signingKey |-> signingKey]

\* The process ends and the server starts again over the same database:
\* the constructor loads a new engine from the storage, and listen()
\* starts the push processor of an enabled engine.  What was in progress
\* in the old process is gone.
Restart(outboxTie, deliveryTie) ==
    LET cfg == createFederationConfig(config.instanceUri, config.enabled,
                                      config.trust.mode, config.signingKey)
        loaded == loadFromStorage(cfg, storage, clock, outboxTie, deliveryTie)
    IN  /\ storage.present
        /\ outboxTie \in {0} \cup Tied(CreatedKeys(storage.outbox))
        /\ deliveryTie \in
               {0} \cup Tied(NextAttemptKeys(PendingDeliveries(storage,
                                                               clock + LOAD_WINDOW_MS)))
        /\ config' = loaded.config
        /\ knownInstances' = loaded.knownInstances
        /\ outboxQueue' = loaded.outboxQueue
        /\ outboxIdCounter' = loaded.outboxIdCounter
        /\ deliveryQueue' = loaded.deliveryQueue
        /\ discoveries' = {}
        /\ eventListeners' = <<>>
        /\ cycles' = [c \in Cycles |-> Idle]
        /\ pushInterval' = config.enabled
        /\ timerNext' = clock + PUSH_INTERVAL_MS
        /\ UNCHANGED <<storeVars, clock, trustVars, inbound, response, lastPublish,
                       pushHistory, lastPush>>

InitEngine ==
    /\ clock = 0
    /\ knownInstances = <<>>
    /\ discoveries = {}
    /\ trustAnswer = [uri |-> NoValue]
    /\ lastCall = [u \in Uris |-> "none"]
    /\ lastWrite = [u \in Uris |-> "none"]
    /\ eventListeners = <<>>
    /\ inbound = NoCall
    /\ response = [status |-> 0]
    /\ outboxQueue = <<>>
    /\ outboxIdCounter = 0
    /\ lastPublish = PublishResult(FALSE, 0, NoValue)
    /\ deliveryQueue = <<>>
    /\ pushInterval = FALSE
    /\ timerNext = 0
    /\ cycles = [c \in Cycles |-> Idle]
    /\ pushHistory = [k \in DeliveryKeys |-> NoHistory]
    /\ lastPush = [pushed |-> FALSE]
    /\ storage = NoStorage
    /\ page = NoPage
    /\ backends = NoBackends

\* Trust policy: any configuration, then trust changes and trust queries
InitPolicy ==
    /\ InitEngine
    /\ \E enabled \in BOOLEAN, mode \in TrustMode :
           config = createFederationConfig(Self, enabled, mode, Self)

NextPolicy ==
    \/ \E u \in Peers : AllowInstance(u)
    \/ \E u \in Peers : BlockInstance(u)
    \/ \E u \in Peers : TrustsInstanceCall(u)

SpecPolicy == InitPolicy /\ [][NextPolicy]_vars

\* Trust mutations: allow, block and subscribe calls in any order
InitTrust ==
    /\ InitEngine
    /\ config = createFederationConfig(Self, TRUE, "allowlist", Self)

\* the discovery answers of this specification: an open peer with an
\* inbox, a peer that advertises no federation section, and a non-2xx
SubscribeOutcome(uri) ==
    {o \in DiscoveryOutcome(uri) :
        \/ o.kind = "non2xx"
        \/ o.kind = "ok" /\ o.metadata.inbox = uri /\ o.metadata.trustMode = "open"
        \/ o.kind = "ok" /\ o.metadata.inbox = NoValue /\ o.metadata.trustMode = NoValue}

NextTrust ==
    \/ \E u \in Peers : AllowInstance(u)
    \/ \E u \in Peers : BlockInstance(u)
    \/ \E u \in Peers : SubscribeCall(u)
    \/ \E d \in discoveries : \E outcome \in SubscribeOutcome(d.uri) :
           DiscoveryReturn(d, outcome)

SpecTrust == InitTrust /\ [][NextTrust]_vars

\* Inbound processing: any configuration, trust changes, listeners that
\* come and go, and envelopes of any caller
InitInbound == InitPolicy

InboundEnvelopes == {e \in Envelopes : e.type = "PostCreated" /\ e.object = "post1"}

NextInbound ==
    \/ \E u \in Peers : AllowInstance(u)
    \/ \E u \in Peers : BlockInstance(u)
    \/ \E l \in Listeners : OnEvent(l)
    \/ \E l \in Listeners : Unsubscribe(l)
    \/ \E e \in InboundEnvelopes, u \in Peers : ProcessInboundEventCall(e, u)

SpecInbound == InitInbound /\ [][NextInbound]_vars

\* Inbound dispatch: listeners that return, throw or unsubscribe themselves
\* are registered and removed while envelopes arrive
ProcessInboundEventStep ==
    \E e \in InboundEnvelopes, u \in Peers : ProcessInboundEventCall(e, u)

NextDispatch ==
    \/ \E l \in Listeners \cup OneShotListeners : OnEvent(l)
    \/ \E l \in Listeners \cup OneShotListeners : Unsubscribe(l)
    \/ ProcessInboundEventStep

SpecDispatch == InitInbound /\ [][NextDispatch]_vars

ActiveCycles == {c \in Cycles : cycles[c].active}

\* Active push: an enabled engine with a signing key that knows its peers
\* and has started the push processor publishes, and drains its delivery
\* queue on the timer
InitPush ==
    /\ clock = 0
    /\ config = createFederationConfig(Self, TRUE, "open", Self)
    /\ knownInstances =
           [i \in 1..Min(NumTargets, NumPeers) |->
               [key |-> PeerNames[i],
                value |-> [uri |-> PeerNames[i], version |-> "0.1",
                           inbox |-> PeerNames[i], outbox |-> PeerNames[i],
                           trustMode |-> "open", lastSeen |-> 0,
                           lastError |-> NoValue]]]
    /\ discoveries = {}
    /\ trustAnswer = [uri |-> NoValue]
    /\ lastCall = [u \in Uris |-> "none"]
    /\ lastWrite = [u \in Uris |-> "none"]
    /\ eventListeners = <<>>
    /\ inbound = NoCall
    /\ response = [status |-> 0]
    /\ outboxQueue = <<>>
    /\ outboxIdCounter = 0
    /\ lastPublish = PublishResult(FALSE, 0, NoValue)
    /\ deliveryQueue = <<>>
    /\ pushInterval = TRUE
    /\ timerNext = PUSH_INTERVAL_MS
    /\ cycles = [c \in Cycles |-> Idle]
    /\ pushHistory = [k \in DeliveryKeys |-> NoHistory]
    /\ lastPush = [pushed |-> FALSE]
    /\ storage = NoStorage
    /\ page = NoPage
    /\ backends = NoBackends

Next ==
    \/ /\ outboxIdCounter < MaxEvents
       /\ \E type \in {"PostCreated"}, object \in {"post1"} : PublishAndPush(type, object)
    \/ \E eventId \in MapKeys(outboxQueue) : \E i \in 1..Min(NumTargets, NumPeers) :
           QueueForDeliveryCall(eventId, PeerNames[i])
    \/ TimerFire
    \/ \E c \in ActiveCycles : \E outcome \in PushOutcome : PostReturn(c, outcome)
    \/ \E c \in ActiveCycles : \E peer \in PeerConfig(cycles[c].key[1]) :
           PostReachesEngine(c, peer)
    \/ \E t \in Moments : Advance(t)

Spec == InitPush /\ [][Next]_vars


----------------------------------------------------------------------------
(* Claims about the trust policy (SpecPolicy, SpecTrust) *)

\* the table of the policy: closed trusts nobody, open and blocklist
\* everybody not blocked, allowlist everybody allowed
TrustTable(mode, allow, block, u) ==
    CASE mode = "closed"                -> FALSE
      [] mode \in {"open", "blocklist"} -> u \notin block
      [] mode = "allowlist"             -> u \in allow

\* C5 as stated: the answer of trustsInstance is the value of the table
\* for (mode, allow set, block set), whatever else the engine is set to
C5_AnswerIsTable ==
    trustAnswer.uri # NoValue =>
        trustAnswer.result = TrustTable(trustAnswer.trust.mode, trustAnswer.trust.allowlist,
                                        trustAnswer.trust.blocklist, trustAnswer.uri)

\* C5 amended: with federation enabled the answer of trustsInstance is the
\* value of the table for (mode, allow set, block set); with federation
\* disabled it is false
C5_AnswerIsTableWhenEnabled ==
    trustAnswer.uri # NoValue =>
        trustAnswer.result =
            (/\ trustAnswer.enabled
             /\ TrustTable(trustAnswer.trust.mode, trustAnswer.trust.allowlist,
                           trustAnswer.trust.blocklist, trustAnswer.uri))

\* C5 witness: an allowlist engine answered true for an allowed instance
\* while another instance was blocked
C5_AllowedAnswered ==
    /\ trustAnswer.uri # NoValue
    /\ trustAnswer.enabled
    /\ trustAnswer.trust.mode = "allowlist"
    /\ trustAnswer.uri \in trustAnswer.trust.allowlist
    /\ trustAnswer.trust.blocklist # {}
    /\ trustAnswer.result

InFlight(u) == \E d \in discoveries : d.uri = u

\* C6 as stated: no identifier is in both sets, and each identifier is in
\* the set of the most recent call made for it (the allow set after
\* allowInstance and after a subscribeToInstance that has returned, the
\* block set after blockInstance)
C6_InSetOfLastCall ==
    \A u \in Peers :
        /\ ~(u \in config.trust.allowlist /\ u \in config.trust.blocklist)
        /\ lastCall[u] = "allowInstance" => u \in config.trust.allowlist
        /\ lastCall[u] = "blockInstance" => u \in config.trust.blocklist
        /\ (lastCall[u] = "subscribeToInstance" /\ ~InFlight(u)) =>
               u \in config.trust.allowlist

\* C6 amended: no identifier is in both sets; each identifier is in the
\* set of the most recent allowInstance or blockInstance executed for it,
\* where subscribeToInstance executes allowInstance when its discovery
\* returns a peer that is not closed and otherwise changes neither set;
\* and repeating allowInstance or blockInstance changes nothing
C6_InSetOfLastWrite ==
    \A u \in Peers :
        /\ ~(u \in config.trust.allowlist /\ u \in config.trust.blocklist)
        /\ lastWrite[u] = "allow" => u \in config.trust.allowlist
        /\ lastWrite[u] = "block" => u \in config.trust.blocklist
        /\ lastWrite[u] = "none" =>
               u \notin config.trust.allowlist \cup config.trust.blocklist
        /\ lastWrite[u] = "allow" => allowInstance(config, u) = config
        /\ lastWrite[u] = "block" => blockInstance(config, u) = config

\* C6 witness: a subscription that succeeded allowed one instance, and a
\* subscription that failed left another instance in the block set
C6_SubscribedAfterBlock ==
    \E u, v \in Peers :
        /\ u # v
        /\ lastCall[u] = "subscribeToInstance" /\ ~InFlight(u)
        /\ lastWrite[u] = "allow"
        /\ u \in config.trust.allowlist
        /\ lastCall[v] = "subscribeToInstance" /\ ~InFlight(v)
        /\ lastWrite[v] = "block"
        /\ v \in config.trust.blocklist

----------------------------------------------------------------------------
(* Claims about inbound processing (SpecInbound) *)

\* an instance signs with its own key
SignerOf(instanceUri) == instanceUri

CallTrusted ==
    CASE inbound.mode = "closed"                -> FALSE
      [] inbound.mode \in {"open", "blocklist"} -> ~inbound.blocked
      [] inbound.mode = "allowlist"             -> inbound.allowed

\* C2: an envelope of a trusted source whose origin is the claimed source
\* and whose signature verifies to another identity than the origin's
\* signer is rejected with 'Invalid signature' and reaches no listener
C2_ForgedSignatureRejected ==
    (/\ inbound.called
     /\ inbound.enabled
     /\ CallTrusted
     /\ inbound.event.origin = inbound.sourceInstance
     /\ inbound.event.signature.wellFormed
     /\ inbound.event.signature.message = Message(inbound.event)
     /\ inbound.event.signature.signer # SignerOf(inbound.event.origin))
    => (/\ ~inbound.accepted
        /\ inbound.reason = "Invalid signature"
        /\ inbound.invoked = <<>>)

\* the first reason to reject a call, in the order of the claim; signature
\* verification fails when it yields no signer
RejectReason ==
    IF ~inbound.enabled THEN "Federation disabled"
    ELSE IF ~CallTrusted THEN "Instance not trusted"
    ELSE IF inbound.event.origin # inbound.sourceInstance THEN "Origin mismatch"
    ELSE IF ~inbound.event.signature.wellFormed THEN "Invalid signature"
    ELSE NoValue

\* C3: a call is rejected when federation is disabled, the source is not
\* trusted, the origin differs from the source or signature verification
\* fails, with the reason of the first of these that applies
C3_RejectedInOrder ==
    (inbound.called /\ RejectReason # NoValue) =>
        (~inbound.accepted /\ inbound.reason = RejectReason)

\* C3 witness: an untrusted source with a mismatching origin was reported
\* as not trusted
C3_UntrustedMismatch ==
    /\ inbound.called
    /\ inbound.enabled
    /\ ~CallTrusted
    /\ inbound.event.origin # inbound.sourceInstance
    /\ inbound.reason = "Instance not trusted"

\* C4: a listener is invoked only for a call that is accepted
C4_InvokedOnlyIfAccepted ==
    inbound.called => (inbound.invoked # <<>> => inbound.accepted)

\* C4 witness: an envelope with a malformed signature from a trusted source
\* was rejected with listeners registered, and none was invoked
C4_RejectedWithListeners ==
    /\ inbound.called
    /\ inbound.listeners > 0
    /\ RejectReason = "Invalid signature"
    /\ ~inbound.accepted
    /\ inbound.invoked = <<>>

----------------------------------------------------------------------------
(* Claims about active push (Spec) *)

\* C1: a push that reached the inbox route of a peer that runs this engine
\* with federation enabled and trusts the sender is accepted there, its
\* listeners receive the envelope, and the attempt becomes delivered
C1_PushAccepted ==
    (/\ lastPush.pushed
     /\ lastPush.peer.enabled
     /\ TrustTable(lastPush.peer.trust.mode, lastPush.peer.trust.allowlist,
                   lastPush.peer.trust.blocklist, config.instanceUri))
    => (/\ lastPush.status = 202
        /\ lastPush.call.called
        /\ lastPush.call.accepted
        /\ lastPush.call.invoked # <<>>
        /\ lastPush.attemptStatus = "delivered")

Queued == {k \in DeliveryKeys : MapHas(deliveryQueue, k)}

\* 1s, 5s, 30s, 2m
C7_Ladder == <<1, 5, 30, 120>>

C7_LadderInv ==
    \A k \in Queued :
        LET attempt == MapGet(deliveryQueue, k)
            h == pushHistory[k]
        IN  h.firstOk = 0 =>
                /\ h.pushes \in 1..4 =>
                       /\ attempt.status = "pending"
                       /\ attempt.nextAttempt = h.now + C7_Ladder[h.pushes]
                /\ h.pushes >= 5 => attempt.status = "failed"

C7_RescheduleStep ==
    \A k \in Queued :
        (/\ MapHas(deliveryQueue', k)
         /\ pushHistory'[k].firstOk = 0
         /\ MapGet(deliveryQueue', k).nextAttempt # MapGet(deliveryQueue, k).nextAttempt)
        => (/\ pushHistory'[k].pushes = pushHistory[k].pushes + 1
            /\ pushHistory'[k].pushes <= 4)

\* C7: while every push of an attempt fails, the n-th failure, n = 1..4,
\* leaves it pending with nextAttempt = the drain's now + the n-th entry
\* of the ladder, the fifth sets it failed, and nextAttempt is changed by
\* the first four failures only
C7_RetryLadder == []C7_LadderInv /\ [][C7_RescheduleStep]_vars

\* C7 witness: an attempt failed after five failed pushes
C7_FailedAfterFive ==
    \E k \in Queued :
        /\ pushHistory[k].pushes = 5
        /\ pushHistory[k].firstOk = 0
        /\ MapGet(deliveryQueue, k).status = "failed"
        /\ MapGet(deliveryQueue, k).attemptCount = 5

\* C8: an attempt whose k-th push was its first to succeed, k = 1..5, has
\* attemptCount k and status delivered from then on
C8_CountIsFirstSuccess ==
    \A k \in Queued :
        pushHistory[k].firstOk \in 1..5 =>
            /\ MapGet(deliveryQueue, k).attemptCount = pushHistory[k].firstOk
            /\ MapGet(deliveryQueue, k).status = "delivered"

C9_TerminalStep ==
    \A k \in Queued :
        (/\ MapGet(deliveryQueue, k).status \in {"delivered", "failed"}
         /\ MapHas(deliveryQueue', k))
        => (/\ MapGet(deliveryQueue', k).status = MapGet(deliveryQueue, k).status
            /\ MapGet(deliveryQueue', k).attemptCount
                   = MapGet(deliveryQueue, k).attemptCount)

\* C9: once an attempt is delivered or failed, its status and its
\* attemptCount do not change while it is in the queue
C9_TerminalIsFinal == [][C9_TerminalStep]_vars

\* C10: at most one processDeliveryQueue invocation is in progress
C10_OneCycle == Cardinality(ActiveCycles) <= 1

----------------------------------------------------------------------------
(* The engine over a database, with restarts *)

\* the orders ORDER BY can return the rows of the database in
OutboxTies == {0} \cup Tied(CreatedKeys(storage.outbox))

DeliveryTies ==
    {0} \cup Tied(NextAttemptKeys(PendingDeliveries(storage, clock + LOAD_WINDOW_MS)))

\* An open engine with a signing key over a new database, after it came
\* to know a peer
InitStore ==
    /\ clock = 0
    /\ config = createFederationConfig(Self, TRUE, "open", Self)
    /\ knownInstances =
           discoverInstance(<<>>, PeerNames[1],
               [kind |-> "ok",
                metadata |-> [version |-> "0.1", inbox |-> PeerNames[1],
                              outbox |-> PeerNames[1], trustMode |-> "open"]], 0)
    /\ discoveries = {}
    /\ trustAnswer = [uri |-> NoValue]
    /\ lastCall = [u \in Uris |-> "none"]
    /\ lastWrite = [u \in Uris |-> "none"]
    /\ eventListeners = <<>>
    /\ inbound = NoCall
    /\ response = [status |-> 0]
    /\ outboxQueue = <<>>
    /\ outboxIdCounter = 0
    /\ lastPublish = PublishResult(FALSE, 0, NoValue)
    /\ deliveryQueue = <<>>
    /\ pushInterval = TRUE
    /\ timerNext = PUSH_INTERVAL_MS
    /\ cycles = [c \in Cycles |-> Idle]
    /\ pushHistory = [k \in DeliveryKeys |-> NoHistory]
    /\ lastPush = [pushed |-> FALSE]
    /\ storage = persistInstance(EmptyStorage, config,
                                  MapGet(knownInstances, PeerNames[1]))
    /\ page = NoPage
    /\ backends = NoBackends

PublishStep ==
    /\ outboxIdCounter < MaxPublishes
    /\ \E type \in {"PostCreated"}, object \in {"post1"} : PublishAndPush(type, object)

RestartStep ==
    \E outboxTie \in OutboxTies, deliveryTie \in DeliveryTies :
        Restart(outboxTie, deliveryTie)

\* the cursors a reader sends: none, the oldest and the newest id of the
\* log, the id before the oldest and the id after the newest
Cursors ==
    {NoCursor, outboxIdCounter + 1}
        \cup (IF outboxQueue = <<>> THEN {}
              ELSE {outboxQueue[1].key, outboxQueue[Len(outboxQueue)].key})

\* Outbox log: publishes, reads with a cursor and restarts
NextLog ==
    \/ PublishStep
    \/ \E since \in Cursors, limit \in {0, 1} : GetOutboxEvents(since, limit)
    \/ RestartStep
    \/ \E t \in Moments : t <= StoreClock /\ Advance(t)

SpecLog == InitStore /\ [][NextLog]_vars

\* Delivery over the database: publishes, drain cycles with pushes that
\* succeed or fail, and restarts
NextStore ==
    \/ PublishStep
    \/ TimerFire
    \/ \E c \in Cycles :
           \E outcome \in {[kind |-> "ok"], [kind |-> "status", status |-> 500]} :
               PostReturn(c, outcome)
    \/ RestartStep
    \/ \E t \in Moments : t <= StoreClock /\ Advance(t)

SpecStore == InitStore /\ [][NextStore]_vars

----------------------------------------------------------------------------
(* Publishing with and without the federation switch and the signing key *)

\* the database an engine with a signing key left: a known peer, one
\* event published and its delivery to the peer pending
SeededStorage ==
    LET cfg == createFederationConfig(Self, TRUE, "open", Self)
        known == discoverInstance(<<>>, PeerNames[1],
                     [kind |-> "ok",
                      metadata |-> [version |-> "0.1", inbox |-> PeerNames[1],
                                    outbox |-> PeerNames[1], trustMode |-> "open"]], 0)
        outbox == publishEvent(<<>>, cfg, 1, "PostCreated", "post1", 0)
        queue == queueForDelivery(<<>>, 1, TrustedKnown(known, cfg), 0)
    IN  EnqueuedStore(
            PublishedStore(persistInstance(EmptyStorage, cfg, MapGet(known, PeerNames[1])),
                           <<>>, outbox, 1),
            <<>>, queue)

\* an engine constructed over that database, with federation enabled or
\* not and with a signing key or none
InitPublish ==
    /\ clock = 0
    /\ storage = SeededStorage
    /\ \E enabled \in BOOLEAN, signingKey \in {Self, NoValue} :
           LET loaded == loadFromStorage(
                             createFederationConfig(Self, enabled, "open", signingKey),
                             storage, clock, 0, 0)
           IN  /\ config = loaded.config
               /\ knownInstances = loaded.knownInstances
               /\ outboxQueue = loaded.outboxQueue
               /\ outboxIdCounter = loaded.outboxIdCounter
               /\ deliveryQueue = loaded.deliveryQueue
               /\ pushInterval = enabled
    /\ timerNext = PUSH_INTERVAL_MS
    /\ discoveries = {}
    /\ trustAnswer = [uri |-> NoValue]
    /\ lastCall = [u \in Uris |-> "none"]
    /\ lastWrite = [u \in Uris |-> "none"]
    /\ eventListeners = <<>>
    /\ inbound = NoCall
    /\ response = [status |-> 0]
    /\ lastPublish = PublishResult(FALSE, 0, NoValue)
    /\ cycles = [c \in Cycles |-> Idle]
    /\ pushHistory = [k \in DeliveryKeys |-> NoHistory]
    /\ lastPush = [pushed |-> FALSE]
    /\ page = NoPage
    /\ backends = NoBackends

NextPublish ==
    \/ PublishStep
    \/ \E event \in InboundEnvelopes, u \in Peers : ProcessInboundEventCall(event, u)

SpecPublish == InitPublish /\ [][NextPublish]_vars

----------------------------------------------------------------------------
\* C11: queueForDelivery is idempotent per (target, event) pair: called
\* again for a pair that has a queue entry, with that target alone or with
\* the default targets, it creates no second entry and leaves the entry's
\* attemptCount, nextAttempt and status as they are, whatever the status
C11_EnqueueIdempotent ==
    \A k \in Queued :
        /\ queueForDelivery(deliveryQueue, k[2], <<k[1]>>, clock) = deliveryQueue
        /\ LET again == queueForDelivery(deliveryQueue, k[2],
                                         TrustedKnown(knownInstances, config), clock)
           IN  /\ Cardinality({i \in 1..Len(again) : again[i].key = k}) = 1
               /\ MapGet(again, k) = MapGet(deliveryQueue, k)

\* an entry that has been pushed and is terminal, at a later time than
\* its enqueueing, for which queueForDelivery is called again
C11_TerminalEnqueuedAgain ==
    \E k \in Queued :
        /\ MapGet(deliveryQueue, k).status \in {"delivered", "failed"}
        /\ MapGet(deliveryQueue, k).attemptCount > 0
        /\ clock > 0
        /\ MapHas(outboxQueue, k[2])
----------------------------------------------------------------------------
\* the queue entries of event eventId for instance u
AttemptsFor(queue, u, eventId) ==
    {i \in 1..Len(queue) : queue[i].key = DeliveryKey(u, eventId)}

C12_Published ==
    LET eventId == lastPublish'.eventId
    IN  /\ lastPublish'.ok
        /\ MapHas(outboxQueue', eventId)
        /\ MapGet(outboxQueue', eventId).event.type = "PostCreated"
        /\ MapGet(outboxQueue', eventId).event.object = "post1"
        /\ \A u \in Uris :
               IF MapHas(knownInstances, u) /\ trustsInstance(config, u)
               THEN /\ Cardinality(AttemptsFor(deliveryQueue', u, eventId)) = 1
                    /\ LET attempt == MapGet(deliveryQueue', DeliveryKey(u, eventId))
                       IN  /\ attempt.status = "pending"
                           /\ attempt.attemptCount = 0
                           /\ attempt.nextAttempt = clock
               ELSE AttemptsFor(deliveryQueue', u, eventId) = {}

\* C12: after a successful publishAndPush the new event is in the outbox
\* with the given type and object, and the delivery queue holds exactly one
\* pending attempt (attemptCount 0, nextAttempt the time of the call) for
\* each known instance that trustsInstance accepts at that moment, and no
\* attempt for that event for any other instance
C12_PublishEnqueues == [][PublishStep => C12_Published]_vars
----------------------------------------------------------------------------
\* C13: getOutboxEvents called with a 'since' cursor that is not the id of
\* any event in the outbox returns the page that starts at the oldest event
\* of the log, the page a call without cursor returns
C13_UnknownCursorFromStart ==
    (page.called /\ page.since # NoCursor /\ ~page.known) => page.ids = page.start
----------------------------------------------------------------------------
C14_AfterCursorInv ==
    (page.called /\ page.known) =>
        /\ \A i \in 1..Len(page.ids) : page.ids[i] > page.since
        /\ \A i \in 1..(Len(page.ids) - 1) : page.ids[i] < page.ids[i + 1]

C14_RepeatStep ==
    (/\ page.called
     /\ page.known
     /\ ~page.published
     /\ \E limit \in {0, 1} : GetOutboxEvents(page.since, limit)
     /\ page'.limit = page.limit)
        => (page'.ids = page.ids /\ page'.cursor = page.cursor)

\* C14: in every outbox state reachable by publishes, prunes and restarts,
\* getOutboxEvents with a cursor that is in the log returns only events
\* whose sequence number is greater than the cursor's, in increasing order
\* of sequence numbers, and the same query repeated without a publish in
\* between returns the same events and the same next cursor
C14_CursorPages == []C14_AfterCursorInv /\ [][C14_RepeatStep]_vars
----------------------------------------------------------------------------
StoredIds == {storage.outbox[i].key : i \in 1..Len(storage.outbox)}

C15_AfterPublish ==
    /\ Len(outboxQueue') <= OUTBOX_CAP
    /\ LET removed == MapKeys(outboxQueue) \ MapKeys(outboxQueue')
       IN  /\ \A r \in removed : \A k \in MapKeys(outboxQueue') : r < k
           /\ removed \cap {storage'.outbox[i].key : i \in 1..Len(storage'.outbox)} = {}
    /\ {storage'.outbox[i].key : i \in 1..Len(storage'.outbox)} = MapKeys(outboxQueue')

\* C15: after every publishEvent the outbox in memory holds at most
\* OUTBOX_CAP events; the events removed are those with the smallest
\* sequence numbers, each of them is removed from the database too, and
\* the ids in the database are the ids in memory
C15_CapAndStore == [][PublishStep => C15_AfterPublish]_vars
----------------------------------------------------------------------------
C16_UniqueIds ==
    \A i, j \in 1..Len(outboxQueue) :
        outboxQueue[i].key = outboxQueue[j].key => i = j

C16_FreshStep ==
    (PublishStep /\ lastPublish'.ok) =>
        \A id \in MapKeys(outboxQueue) \cup StoredIds : lastPublish'.eventId > id

\* C16: the id publishEvent returns has a sequence number greater than
\* that of every id issued before that is still in memory or in the
\* database, also for ids issued before a restart that reloaded the outbox,
\* and no two outbox events share an id
C16_FreshIds == []C16_UniqueIds /\ [][C16_FreshStep]_vars
----------------------------------------------------------------------------
\* the engine a new process constructs over the database as it is now
FreshEngine(outboxTie, deliveryTie) ==
    loadFromStorage(createFederationConfig(config.instanceUri, config.enabled,
                                           config.trust.mode, config.signingKey),
                    storage, clock, outboxTie, deliveryTie)

\* C17: over the database the engine has produced, a newly constructed
\* FederationManager returns what the original returns for
\* getKnownInstances, getOutboxEvents and getDeliveryQueueStatus (the same
\* pending, delivered and failed counts and the same items); the database
\* may return rows with equal sort keys in the order that suits the claim
C17_FreshEngineAgrees ==
    \E outboxTie \in OutboxTies, deliveryTie \in DeliveryTies :
        LET fresh == FreshEngine(outboxTie, deliveryTie)
        IN  /\ getKnownInstances(fresh.knownInstances) = getKnownInstances(knownInstances)
            /\ getOutboxEvents(fresh.outboxQueue, NoCursor, 0)
                   = getOutboxEvents(outboxQueue, NoCursor, 0)
            /\ getDeliveryQueueStatus(fresh.deliveryQueue)
                   = getDeliveryQueueStatus(deliveryQueue)
----------------------------------------------------------------------------
C18_NoKeyStep ==
    (PublishStep /\ config.enabled /\ config.signingKey = NoValue) =>
        /\ ~lastPublish'.ok
        /\ lastPublish'.error = "No signing key configured for federation"
        /\ outboxQueue' = outboxQueue
        /\ deliveryQueue' = deliveryQueue
        /\ storage' = storage

C18_InboundAccepted ==
    (/\ inbound.called
     /\ config.enabled
     /\ config.signingKey = NoValue
     /\ CallTrusted
     /\ inbound.event.origin = inbound.sourceInstance
     /\ inbound.event.signature.wellFormed
     /\ inbound.event.signature.message = Message(inbound.event)
     /\ inbound.event.signature.signer = SignerOf(inbound.event.origin))
    => inbound.accepted

\* C18: with federation enabled and no signing key, publishEvent and
\* publishAndPush fail with an error and leave the outbox log, the
\* database and the delivery queue as they are, while processInboundEvent
\* accepts the envelope of a trusted source signed by its origin
C18_NoKeyPublishFails == []C18_InboundAccepted /\ [][C18_NoKeyStep]_vars

\* a publish has failed for the missing key on an engine with an event in
\* its outbox and an attempt in its queue, and an inbound envelope has
\* been accepted
C18_FailedAndAccepted ==
    /\ config.enabled
    /\ config.signingKey = NoValue
    /\ lastPublish.error = "No signing key configured for federation"
    /\ outboxQueue # <<>>
    /\ deliveryQueue # <<>>
    /\ inbound.called
    /\ inbound.accepted

----------------------------------------------------------------------------
C19_DisabledStep ==
    (PublishStep /\ ~config.enabled) =>
        /\ ~lastPublish'.ok
        /\ lastPublish'.error = "Federation is not enabled"
        /\ outboxQueue' = outboxQueue
        /\ outboxIdCounter' = outboxIdCounter
        /\ deliveryQueue' = deliveryQueue
        /\ storage' = storage

\* C19: with federation disabled, publishEvent and publishAndPush fail
\* with the not-enabled error and change nothing: the outbox, the sequence
\* counter, the delivery queue and the database stay as they are
C19_DisabledPublishFails == [][C19_DisabledStep]_vars

\* a publish has failed on a disabled engine whose outbox, queue and
\* database are not empty
C19_FailedDisabled ==
    /\ ~config.enabled
    /\ lastPublish.error = "Federation is not enabled"
    /\ outboxQueue # <<>>
    /\ deliveryQueue # <<>>
    /\ storage.outbox # <<>>
\* C20: when processInboundEvent accepts an envelope, every listener that
\* was registered when the call was made is invoked exactly once, in
\* registration order, whichever of them throw, and the result is accepted.
RegisteredIds == [i \in 1..Len(eventListeners) |-> eventListeners[i].id]

C20_AcceptedStep ==
    (ProcessInboundEventStep /\ inbound'.accepted) => inbound'.invoked = RegisteredIds

C20_EveryListenerOnce == [][C20_AcceptedStep]_vars

----------------------------------------------------------------------------
(* Drain cycles over a database until terminal attempts are an hour old *)

\* the fires of the timer that find a terminal row of the store older
\* than the retention window
StoredSweepFires ==
    {IF old <= timerNext THEN timerNext
     ELSE timerNext + PUSH_INTERVAL_MS
              * ((old - timerNext + PUSH_INTERVAL_MS - 1) \div PUSH_INTERVAL_MS) :
        old \in {storage.deliveries[i].value.lastAttempt + RETENTION_MS + 1 :
                    i \in {j \in 1..Len(storage.deliveries) :
                              storage.deliveries[j].value.status # "pending"}}}

\* time passes, to the next moment with work or to a fire of the timer an
\* hour after a stored attempt ended
SweepMoments == Moments \cup (IF pushInterval THEN StoredSweepFires ELSE {})

AdvanceSweep(t) ==
    /\ t > clock
    /\ t <= SweepClock
    /\ \A d \in Deadlines : t <= d
    /\ TimerDue => t <= FireWithWork
    /\ clock' = t
    /\ UNCHANGED <<storeVars, config, knownInstances, discoveries, trustVars, inboundVars,
                   outboxVars, queueVars, timerVars>>

\* an engine constructed over the database of an earlier run: a known
\* peer, one event published and its delivery to the peer pending
InitSweep ==
    /\ clock = 0
    /\ storage = SeededStorage
    /\ LET loaded == loadFromStorage(createFederationConfig(Self, TRUE, "open", Self),
                                     storage, clock, 0, 0)
       IN  /\ config = loaded.config
           /\ knownInstances = loaded.knownInstances
           /\ outboxQueue = loaded.outboxQueue
           /\ outboxIdCounter = loaded.outboxIdCounter
           /\ deliveryQueue = loaded.deliveryQueue
    /\ pushInterval = TRUE
    /\ timerNext = PUSH_INTERVAL_MS
    /\ discoveries = {}
    /\ trustAnswer = [uri |-> NoValue]
    /\ lastCall = [u \in Uris |-> "none"]
    /\ lastWrite = [u \in Uris |-> "none"]
    /\ eventListeners = <<>>
    /\ inbound = NoCall
    /\ response = [status |-> 0]
    /\ lastPublish = PublishResult(FALSE, 0, NoValue)
    /\ cycles = [c \in Cycles |-> Idle]
    /\ pushHistory = [k \in DeliveryKeys |-> NoHistory]
    /\ lastPush = [pushed |-> FALSE]
    /\ page = NoPage
    /\ backends = NoBackends

NextSweep ==
    \/ TimerFire
    \/ \E c \in ActiveCycles : \E outcome \in PushOutcome : PostReturn(c, outcome)
    \/ clock <= RestartClock /\ RestartStep
    \/ \E t \in SweepMoments : AdvanceSweep(t)

SpecSweep == InitSweep /\ [][NextSweep]_vars

\* drain cycle c awaits the fetch of a push: its return is enabled
PushAwaited(c) == cycles[c].active /\ cycles[c].phase = "posting"

\* the timer keeps firing, time keeps passing and every push returns: weak
\* fairness of TimerFire, of the passing of time and of the return of the
\* push of each drain cycle, the last with its enabling condition written out
SweepFairness ==
    /\ WF_vars(TimerFire)
    /\ WF_vars(\E t \in SweepMoments : AdvanceSweep(t))
    /\ \A c \in Cycles :
           \/ []<>(~PushAwaited(c))
           \/ []<><<\E outcome \in PushOutcome : PostReturn(c, outcome)>>_vars

SpecSweepFair == SpecSweep /\ SweepFairness

----------------------------------------------------------------------------
(* The outbox methods of the two storage backends, given the same calls *)

StoredEvents ==
    [id : 1..MaxStored, event : {"a", "b"}, created : 0..MaxCreated, deliveredTo : {{}}]

engineVars ==
    <<storage, page, clock, config, knownInstances, discoveries, trustVars, inboundVars,
      outboxVars, queueVars, timerVars>>

BackendsSaveOutboxEvent(event) ==
    /\ backends' = [memory |-> memory_saveOutboxEvent(backends.memory, event),
                    sqlite |-> saveOutboxEvent(backends.sqlite, event),
                    call |-> "saveOutboxEvent",
                    memoryResult |-> <<>>, sqliteResult |-> <<>>]
    /\ UNCHANGED engineVars

BackendsGetOutboxEvent(id) ==
    /\ backends' = [backends EXCEPT
                       !.call = "getOutboxEvent",
                       !.memoryResult = memory_getOutboxEvent(backends.memory, id),
                       !.sqliteResult = getOutboxEvent(backends.sqlite, id)]
    /\ UNCHANGED engineVars

BackendsGetOutboxEvents(since, limit, tie) ==
    /\ tie \in {0} \cup Tied(CreatedKeys(NewerThanCursor(backends.sqlite, since)))
    /\ backends' = [backends EXCEPT
                       !.call = "getOutboxEvents",
                       !.memoryResult =
                           Values(memory_getOutboxEvents(backends.memory, since, limit)),
                       !.sqliteResult =
                           Values(storage_getOutboxEventsSince(backends.sqlite, since,
                                                               limit, tie))]
    /\ UNCHANGED engineVars

BackendsMarkDelivered(eventId, instanceUri) ==
    /\ backends' = [memory |-> memory_markDelivered(backends.memory, eventId, instanceUri),
                    sqlite |-> markDelivered(backends.sqlite, eventId, instanceUri),
                    call |-> "markDelivered",
                    memoryResult |-> <<>>, sqliteResult |-> <<>>]
    /\ UNCHANGED engineVars

BackendsDeleteOutboxEvent(id) ==
    /\ backends' = [memory |-> memory_deleteOutboxEvent(backends.memory, id),
                    sqlite |-> deleteOutboxEvent(backends.sqlite, id),
                    call |-> "deleteOutboxEvent",
                    memoryResult |-> <<>>, sqliteResult |-> <<>>]
    /\ UNCHANGED engineVars

NextBackends ==
    \/ \E event \in StoredEvents : BackendsSaveOutboxEvent(event)
    \/ \E id \in 1..MaxStored : BackendsGetOutboxEvent(id)
    \/ \E since \in 0..MaxStored, limit \in {0, 1}, tie \in 0..MaxStored :
           BackendsGetOutboxEvents(since, limit, tie)
    \/ \E id \in 1..MaxStored : BackendsMarkDelivered(id, PeerNames[1])
    \/ \E id \in 1..MaxStored : BackendsDeleteOutboxEvent(id)

InitBackends ==
    /\ InitEngine
    /\ config = createFederationConfig(Self, TRUE, "open", Self)

SpecBackends == InitBackends /\ [][NextBackends]_vars

----------------------------------------------------------------------------
(* Discovery of instances, known or not, with every answer *)

\* a network error, the timeout of the fetch and a body that is not the
\* JSON of an object all throw inside the try block
DiscoverOutcome(uri) ==
    DiscoveryOutcome(uri)
        \cup [kind : {"throw"},
              message : {"The operation was aborted due to timeout",
                         "Unexpected token < in JSON"}]

FailedOutcome(uri) == {o \in DiscoverOutcome(uri) : o.kind # "ok"}

NextDiscover ==
    \/ \E u \in Peers : AllowInstance(u)
    \/ \E u \in Peers : BlockInstance(u)
    \/ \E u \in Peers : DiscoverCall(u)
    \/ \E u \in Peers : SubscribeCall(u)
    \/ \E d \in discoveries : \E outcome \in DiscoverOutcome(d.uri) :
           DiscoveryReturn(d, outcome)

SpecDiscover == InitTrust /\ [][NextDiscover]_vars

----------------------------------------------------------------------------
(* A drain over several targets *)

\* the answers to a discovery made for a push: a peer with an inbox, a
\* peer without one, a non-2xx and a transport error
DrainDiscoveryOutcome(uri) ==
    {o \in DiscoveryOutcome(uri) :
        o.kind = "ok" => o.metadata.trustMode = "open"}

\* An enabled open engine that knows every peer, some of them without an
\* inbox, has published one event and queued it for all of them
InitDrain ==
    /\ clock = 0
    /\ config = createFederationConfig(Self, TRUE, "open", Self)
    /\ \E noInbox \in SUBSET Peers :
           knownInstances =
               [i \in 1..NumPeers |->
                   [key |-> PeerNames[i],
                    value |-> [uri |-> PeerNames[i], version |-> "0.1",
                               inbox |-> IF PeerNames[i] \in noInbox THEN NoValue
                                         ELSE PeerNames[i],
                               outbox |-> PeerNames[i],
                               trustMode |-> "open", lastSeen |-> 0,
                               lastError |-> NoValue]]]
    /\ discoveries = {}
    /\ trustAnswer = [uri |-> NoValue]
    /\ lastCall = [u \in Uris |-> "none"]
    /\ lastWrite = [u \in Uris |-> "none"]
    /\ eventListeners = <<>>
    /\ inbound = NoCall
    /\ response = [status |-> 0]
    /\ outboxQueue = publishEvent(<<>>, config, 1, "PostCreated", "post1", 0)
    /\ outboxIdCounter = 1
    /\ lastPublish = PublishResult(TRUE, 1, NoValue)
    /\ deliveryQueue = queueForDelivery(<<>>, 1, TrustedKnown(knownInstances, config), 0)
    /\ pushInterval = TRUE
    /\ timerNext = PUSH_INTERVAL_MS
    /\ cycles = [c \in Cycles |-> Idle]
    /\ pushHistory = [k \in DeliveryKeys |-> NoHistory]
    /\ lastPush = [pushed |-> FALSE]
    /\ storage = NoStorage
    /\ page = NoPage
    /\ backends = NoBackends

NextDrain ==
    \/ TimerFire
    \/ \E c \in ActiveCycles : \E outcome \in PushOutcome : PostReturn(c, outcome)
    \/ \E c \in ActiveCycles : \E outcome \in DrainDiscoveryOutcome(cycles[c].key[1]) :
           PushDiscoveryReturn(c, outcome)
    \/ \E u \in Peers : BlockInstance(u)
    \/ \E t \in Moments : t <= DrainClock /\ Advance(t)

SpecDrain == InitDrain /\ [][NextDrain]_vars

----------------------------------------------------------------------------
(* Drain cycles while the push processor is stopped and started *)

NextTimer ==
    \/ TimerFire
    \/ \E c \in ActiveCycles : \E outcome \in PushOutcome : PostReturn(c, outcome)
    \/ \E c \in ActiveCycles : \E outcome \in DrainDiscoveryOutcome(cycles[c].key[1]) :
           PushDiscoveryReturn(c, outcome)
    \/ StartPushProcessor
    \/ StopPushProcessor
    \/ \E t \in Moments : t <= DrainClock /\ Advance(t)

SpecTimer == InitDrain /\ [][NextTimer]_vars

----------------------------------------------------------------------------
(* Claims about the discovery document (SpecPolicy) *)

\* C25: getMetadata of an enabled engine has enabled = true, the inbox and
\* outbox URLs of the instance and the configured trust mode; of a
\* disabled engine it has enabled = false, trust mode closed and neither
\* inbox nor outbox, whatever the configured mode
C25_Metadata ==
    LET metadata == getMetadata(config)
    IN  IF config.enabled
        THEN /\ DOMAIN metadata = {"enabled", "inbox", "outbox", "trustMode"}
             /\ metadata.enabled = TRUE
             /\ metadata.inbox = <<config.instanceUri, "/federation/inbox">>
             /\ metadata.outbox = <<config.instanceUri, "/federation/outbox">>
             /\ metadata.trustMode = config.trust.mode
        ELSE /\ DOMAIN metadata = {"enabled", "trustMode"}
             /\ metadata.enabled = FALSE
             /\ metadata.trustMode = "closed"

\* C25 witness: a disabled engine configured open, with an allowed
\* instance, reports closed
C25_DisabledOpenReportsClosed ==
    /\ ~config.enabled
    /\ config.trust.mode = "open"
    /\ config.trust.allowlist # {}
    /\ getMetadata(config).trustMode = "closed"

----------------------------------------------------------------------------
(* Claims about the signature codec (SpecPublish) *)

\* the envelopes that differ from event in exactly one of type, origin,
\* timestamp and object, and carry its signature
TamperedOnce(event) ==
    {[event EXCEPT !.type = t] : t \in EventTypes \ {event.type}}
        \cup {[event EXCEPT !.origin = o] : o \in Uris \ {event.origin}}
        \cup {[event EXCEPT !.timestamp = ts] : ts \in (0..2) \ {event.timestamp}}
        \cup {[event EXCEPT !.object = ob] : ob \in Objects \ {event.object}}

\* C26: verifyEventSignature returns null for every envelope made from an
\* event this engine signed by changing one of type, origin, timestamp or
\* object and keeping the signature
C26_TamperedIsNull ==
    \A i \in 1..Len(outboxQueue) :
        verifyEventSignature(outboxQueue[i].value.event) = outboxQueue[i].value.event.origin
            => \A tampered \in TamperedOnce(outboxQueue[i].value.event) :
                   verifyEventSignature(tampered) = NoValue

----------------------------------------------------------------------------
(* Claims about the drain cycle (Spec) *)

\* the invocations that start a push in this step, for the entry they await
StartsPush(c) ==
    /\ cycles'[c].active
    /\ ~cycles[c].active \/ cycles'[c].key # cycles[c].key \/ cycles'[c].now # cycles[c].now

C21_FailedAfterFiveInv ==
    \A k \in Queued :
        (pushHistory[k].firstOk = 0 /\ pushHistory[k].pushes >= 5)
            => MapGet(deliveryQueue, k).status = "failed"

C21_NoPushStep ==
    \A c \in Cycles :
        StartsPush(c) =>
            /\ MapHas(deliveryQueue, cycles'[c].key)
            /\ MapGet(deliveryQueue, cycles'[c].key).status # "failed"
            /\ pushHistory[cycles'[c].key].firstOk = 0
                   => pushHistory[cycles'[c].key].pushes < 5

\* C21: an attempt whose pushes all fail is failed once five drain cycles
\* that found it due have recorded their failure, and no drain cycle
\* starts a push for an attempt that is failed
C21_FailedThenNoPush == []C21_FailedAfterFiveInv /\ [][C21_NoPushStep]_vars

\* C21 witness: an attempt failed by five failed pushes, no invocation in
\* progress, and the timer has fired again since without pushing it
C21_FailedAndLeftAlone ==
    \E k \in Queued :
        /\ pushHistory[k].pushes = 5
        /\ pushHistory[k].firstOk = 0
        /\ MapGet(deliveryQueue, k).status = "failed"
        /\ ActiveCycles = {}
        /\ clock >= MapGet(deliveryQueue, k).lastAttempt + 2 * PUSH_INTERVAL_MS

----------------------------------------------------------------------------
(* Claims about a drain over several targets (SpecDrain) *)

\* what the return of the awaited fetch of invocation c leaves for the
\* attempts of the other targets: their queue entries, the results
\* recorded on them, and where invocation c goes on
OtherTargets(c, after) ==
    LET target == cycles[c].key[1]
        others == {i \in 1..Len(after.deliveryQueue) :
                       after.deliveryQueue[i].key[1] # target}
    IN  [entries |-> {after.deliveryQueue[i] : i \in others},
         results |-> [k \in {x \in DeliveryKeys : x[1] # target} |-> after.pushHistory[k]],
         goesOn |-> after.cycles[c].active,
         next |-> IF after.cycles[c].active
                  THEN <<after.cycles[c].key, after.cycles[c].phase>>
                  ELSE <<>>]

AfterPost(c, outcome) ==
    Continued(c, PushedCycles(cycles, c, knownInstances, outcome, clock),
              PushResult(outcome),
              PushedInstance(knownInstances, cycles[c], outcome, clock),
              PushedStore(storage, config, knownInstances, cycles[c], outcome, clock))

AfterFailedDiscovery(c, outcome) ==
    LET uri == cycles[c].key[1]
        known == discoverInstance(knownInstances, uri, outcome, clock)
    IN  Continued(c, AfterDiscovery(cycles, knownInstances, uri, outcome),
                  Failure("Could not discover instance"), known,
                  DiscoveredStore(storage, config, known, uri, outcome))

FailedDiscoveries(uri) ==
    {o \in DrainDiscoveryOutcome(uri) : o.kind # "ok" \/ o.metadata.inbox = NoValue}

C22_SameForOthers ==
    \A c \in ActiveCycles :
        /\ cycles[c].phase = "posting" =>
               \A o \in PushOutcome :
                   OtherTargets(c, AfterPost(c, o))
                       = OtherTargets(c, AfterPost(c, [kind |-> "ok"]))
        /\ cycles[c].phase = "discovering" =>
               \A o1, o2 \in FailedDiscoveries(cycles[c].key[1]) :
                   OtherTargets(c, AfterFailedDiscovery(c, o1))
                       = OtherTargets(c, AfterFailedDiscovery(c, o2))

C22_NoAbortStep ==
    \A c \in Cycles :
        (cycles[c].active /\ ~cycles'[c].active) =>
            \A i \in (cycles[c].pos + 1)..Len(deliveryQueue) :
                (/\ IsDue(deliveryQueue[i].value, cycles[c].now)
                 /\ MapHas(outboxQueue, deliveryQueue[i].value.eventId))
                => pushHistory'[deliveryQueue[i].key].pushes
                       = pushHistory[deliveryQueue[i].key].pushes + 1

\* C22: an invocation ends only when it has attempted every attempt that
\* is pending and due after the one it awaited, whatever the result of
\* that one was, and what it leaves for the attempts of the other targets
\* is the same whether the awaited push succeeded or failed in any way
C22_TargetsIndependent == []C22_SameForOthers /\ [][C22_NoAbortStep]_vars

\* C22 witness: in the drain started at the first fire of the timer the
\* push to the first target failed and the push to the second succeeded
C22_FailedThenDelivered ==
    LET k1 == DeliveryKey(PeerNames[1], 1)
        k2 == DeliveryKey(PeerNames[2], 1)
    IN  /\ MapHas(deliveryQueue, k1)
        /\ MapHas(deliveryQueue, k2)
        /\ pushHistory[k1] = [pushes |-> 1, firstOk |-> 0, now |-> PUSH_INTERVAL_MS]
        /\ pushHistory[k2] = [pushes |-> 1, firstOk |-> 1, now |-> PUSH_INTERVAL_MS]
        /\ MapGet(deliveryQueue, k1).status = "pending"
        /\ MapGet(deliveryQueue, k2).status = "delivered"
        /\ ActiveCycles = {}

----------------------------------------------------------------------------
(* Claims about discovery and subscription (SpecDiscover) *)

C23_ReturnsNull ==
    \A u \in Peers : \A o \in FailedOutcome(u) :
        discoverInstance_Result(knownInstances, u, o, clock) = NoValue

C23_FailedStep ==
    \A d \in discoveries : \A o \in FailedOutcome(d.uri) :
        DiscoveryReturn(d, o) =>
            /\ MapKeys(knownInstances) \subseteq MapKeys(knownInstances')
            /\ MapHas(knownInstances, d.uri) =>
                   /\ MapGet(knownInstances', d.uri)
                          = [MapGet(knownInstances, d.uri) EXCEPT
                                !.lastError = MapGet(knownInstances', d.uri).lastError]
                   /\ MapGet(knownInstances', d.uri).lastError # NoValue
                   /\ o.kind = "throw" =>
                          MapGet(knownInstances', d.uri).lastError = o.message

\* C23: a discovery that fails returns null, keeps the record of the
\* instance if there is one and sets its lastError to the failure, and
\* no step removes an instance from the known instances
C23_FailureAnnotates ==
    /\ []C23_ReturnsNull
    /\ [][C23_FailedStep]_vars
    /\ [][MapKeys(knownInstances) \subseteq MapKeys(knownInstances')]_vars

\* the discovery of a subscription succeeded and the peer advertises a
\* trust mode other than closed
Subscribable(o) ==
    o.kind = "ok" /\ o.metadata.trustMode \notin {"closed", NoValue}

C24_SubscribeStep ==
    \A d \in discoveries : \A o \in DiscoverOutcome(d.uri) :
        (d.caller = "subscribeToInstance" /\ DiscoveryReturn(d, o)) =>
            IF Subscribable(o)
            THEN config'.trust.allowlist = config.trust.allowlist \cup {d.uri}
            ELSE config'.trust = config.trust

\* C24: subscribeToInstance adds the instance to the allow set when its
\* discovery succeeded and the peer advertises a trust mode that is not
\* closed (none counts as closed), and otherwise leaves the allow set and
\* the block set as they are
C24_SubscribeAllowsIffOpen == [][C24_SubscribeStep]_vars

\* C24 witness: a subscription was refused for an instance in neither set,
\* and another instance was subscribed to
C24_RefusedAndSubscribed ==
    /\ lastCall[PeerNames[1]] = "subscribeToInstance"
    /\ lastCall[PeerNames[2]] = "subscribeToInstance"
    /\ discoveries = {}
    /\ MapHas(knownInstances, PeerNames[1])
    /\ MapGet(knownInstances, PeerNames[1]).trustMode = "closed"
    /\ PeerNames[1] \notin config.trust.allowlist
    /\ PeerNames[2] \in config.trust.allowlist
    /\ lastWrite[PeerNames[2]] = "allow"

----------------------------------------------------------------------------
(* Claims about the storage backends (SpecBackends) *)

\* C27: given the same sequence of calls, MemoryFederationStorage and
\* SQLiteFederationStorage return the same results; in particular, when
\* both hold the same events, some with equal created, getOutboxEvents
\* with a since cursor returns the same events in both
C27_SameCursorPage ==
    (backends.call = "getOutboxEvents" /\ backends.memory = backends.sqlite.outbox)
        => backends.memoryResult = backends.sqliteResult

----------------------------------------------------------------------------
(* Claims about the status of the delivery queue (Spec) *)

\* the attempts of the queue with a status
WithStatus(status) == SelectSeq(deliveryQueue, LAMBDA row : row.value.status = status)

\* an engine just constructed without storage, before any call
FreshEngine_NoStorage ==
    /\ ~storage.present
    /\ deliveryQueue = <<>>
    /\ outboxQueue = <<>>
    /\ outboxIdCounter = 0

\* C28: the pending, delivered and failed counts of getDeliveryQueueStatus
\* are the numbers of items with that status and sum to the number of
\* items, which are the attempts of the queue; on a fresh engine without
\* storage all three are 0
C28_CountsPartition ==
    LET status == getDeliveryQueueStatus(deliveryQueue)
    IN  /\ Len(status.items) = Len(deliveryQueue)
        /\ \A i \in 1..Len(deliveryQueue) : status.items[i] = deliveryQueue[i].value
        /\ status.pending = Len(WithStatus("pending"))
        /\ status.delivered = Len(WithStatus("delivered"))
        /\ status.failed = Len(WithStatus("failed"))
        /\ status.pending + status.delivered + status.failed = Len(status.items)
        /\ FreshEngine_NoStorage =>
               status.pending = 0 /\ status.delivered = 0 /\ status.failed = 0

\* a queue whose attempt has failed for good, counted as failed and as
\* nothing else
C28_FailedCounted ==
    LET status == getDeliveryQueueStatus(deliveryQueue)
    IN  /\ WithStatus("failed") # <<>>
        /\ status.failed = 1 /\ status.pending = 0 /\ status.delivered = 0
        /\ Len(status.items) = 1

----------------------------------------------------------------------------
(* Claims about attempts whose event is gone (SpecStore) *)

\* a step of a drain cycle: its start, or its continuation after a push
DrainStep ==
    \/ TimerFire
    \/ \E c \in Cycles :
           \E outcome \in {[kind |-> "ok"], [kind |-> "status", status |-> 500]} :
               PostReturn(c, outcome)

\* the drain step drops the attempt with this key: it was pending and due,
\* its outbox event is not in the outbox, and it leaves the queue
Dropped(key) ==
    /\ DrainStep
    /\ MapHas(deliveryQueue, key)
    /\ IsDue(MapGet(deliveryQueue, key), clock)
    /\ ~MapHas(outboxQueue, MapGet(deliveryQueue, key).eventId)
    /\ ~MapHas(deliveryQueue', key)

C29_DroppedStep ==
    \A key \in MapKeys(deliveryQueue) :
        Dropped(key) =>
            /\ key \in DOMAIN pushHistory => pushHistory'[key] = pushHistory[key]
            /\ \A c \in Cycles : cycles'[c].active /\ ~cycles[c].active =>
                   cycles'[c].key # key
            /\ ~MapHas(storage'.deliveries, key)

\* C29: a due pending attempt whose outbox event no longer exists is
\* dropped by the drain cycle without a push, and it is gone from the
\* queue in memory and from the persistent store, so that a restart does
\* not bring it back
C29_DroppedEverywhere == [][C29_DroppedStep]_vars

----------------------------------------------------------------------------
(* Claims about a push that succeeds (SpecDrain) *)

\* the push of invocation c returns a success and the invocation ends
SucceedsAndEnds(c) ==
    /\ cycles[c].active
    /\ cycles[c].phase = "posting"
    /\ PostReturn(c, [kind |-> "ok"])
    /\ ~cycles'[c].active

\* after the step: the attempt with this key is delivered, the target is
\* in the delivered set of the event in the outbox and in the stored
\* event, and the record of the target was seen since the invocation
\* began and has no lastError
DeliveredAfter(key, began) ==
    /\ MapHas(deliveryQueue', key) => MapGet(deliveryQueue', key).status = "delivered"
    /\ MapHas(outboxQueue', key[2]) =>
           key[1] \in MapGet(outboxQueue', key[2]).delivered
    /\ storage'.present =>
           /\ MapHas(storage'.outbox, key[2])
           /\ key[1] \in MapGet(storage'.outbox, key[2]).deliveredTo
    /\ MapHas(knownInstances', key[1])
    /\ MapGet(knownInstances', key[1]).lastSeen >= began
    /\ MapGet(knownInstances', key[1]).lastError = NoValue

C30_SuccessStep ==
    \A c \in Cycles :
        SucceedsAndEnds(c) => DeliveredAfter(cycles[c].key, cycles[c].now)

\* C30: when a push succeeds during a drain cycle, at the end of that
\* cycle the attempt is delivered, the target is in the delivered-to set
\* of the event, in memory and in the persisted event, and the record of
\* the target has an updated lastSeen and no lastError (stated for the
\* cycle that ends with the successful push)
C30_DeliveredAtEndOfCycle == [][C30_SuccessStep]_vars

----------------------------------------------------------------------------
(* Claims about the error of a failed attempt (Spec) *)

\* the attempt with this key turns from pending to failed in the step
BecomesFailed(key) ==
    /\ MapHas(deliveryQueue, key)
    /\ MapGet(deliveryQueue, key).status = "pending"
    /\ MapHas(deliveryQueue', key)
    /\ MapGet(deliveryQueue', key).status = "failed"

C31_FailedStep ==
    \A key \in MapKeys(deliveryQueue) :
        BecomesFailed(key) =>
            /\ MapHas(knownInstances', key[1])
            /\ MapGet(knownInstances', key[1]).lastError
                   = MapGet(deliveryQueue', key).lastError

\* C31: when an attempt becomes failed because the fifth push has failed,
\* the record of the target instance has the error of that failure in
\* lastError, whatever the failure was, a non-2xx response included
C31_FailedRecordsError == [][C31_FailedStep]_vars

----------------------------------------------------------------------------
(* Claims about the sweep of terminal attempts (SpecSweep) *)

\* a delivered or failed attempt last attempted more than one hour before now
OldTerminal(attempt, now) ==
    attempt.status # "pending" /\ attempt.lastAttempt < now - RETENTION_MS

\* after the step no such attempt is in the queue
SweptFromQueue(now) ==
    \A i \in 1..Len(deliveryQueue') : ~OldTerminal(deliveryQueue'[i].value, now)

\* after the step no such attempt is in the store
SweptFromStore(now) ==
    \A i \in 1..Len(storage'.deliveries) : ~OldTerminal(storage'.deliveries[i].value, now)

\* the attempts the step finds pending or younger, with their event in
\* the outbox, are in the queue and in the store after it
OthersKept(now) ==
    \A i \in 1..Len(deliveryQueue) :
        LET key == deliveryQueue[i].key
            attempt == deliveryQueue[i].value
        IN  (~OldTerminal(attempt, now) /\ MapHas(outboxQueue, attempt.eventId)) =>
                /\ MapHas(deliveryQueue', key)
                /\ MapHas(storage.deliveries, key) => MapHas(storage'.deliveries, key)

\* the timer fires and the drain cycle it starts awaits nothing: the
\* cycle ends in the step
EndsAtFire ==
    /\ TimerFire
    /\ ~cycles'[FreeCycle].active

\* the last push of drain cycle c returns: the cycle ends in the step
EndsAfterPush(c) ==
    /\ \E outcome \in PushOutcome : PostReturn(c, outcome)
    /\ ~cycles'[c].active

C32_QueueStep ==
    /\ EndsAtFire => SweptFromQueue(clock) /\ OthersKept(clock)
    /\ \A c \in ActiveCycles :
           EndsAfterPush(c) => SweptFromQueue(cycles[c].now) /\ OthersKept(cycles[c].now)

C32_StoreStep ==
    /\ EndsAtFire => SweptFromStore(clock)
    /\ \A c \in ActiveCycles : EndsAfterPush(c) => SweptFromStore(cycles[c].now)

\* the part of C32 about the queue in memory: at the end of a drain cycle
\* no delivered or failed attempt last attempted more than one hour before
\* the start of the cycle is in the queue, and the others are kept
C32_SweptFromMemory == [][C32_QueueStep]_vars

\* C32: at the end of every drain cycle every delivered or failed attempt
\* last attempted more than one hour before the start of the cycle has
\* been deleted from the queue in memory and from the persistent store,
\* and pending and younger terminal attempts are kept
C32_SweptEverywhere == [][C32_QueueStep /\ C32_StoreStep]_vars

----------------------------------------------------------------------------
(* Claims about stopping the push processor (SpecTimer) *)

\* drain cycle c is done with the attempt it awaited a fetch for
LeavesAttempt(c) ==
    /\ cycles[c].active
    /\ ~cycles'[c].active \/ cycles'[c].key # cycles[c].key

\* the outcome of a push for the attempt of cycle c is recorded in the step
OutcomeRecorded(c) ==
    LET key == cycles[c].key
    IN  /\ MapHas(deliveryQueue', key)
        /\ MapGet(deliveryQueue', key).attemptCount
               = MapGet(deliveryQueue, key).attemptCount + 1
        /\ MapGet(deliveryQueue', key).lastAttempt = cycles[c].now
        /\ pushHistory'[key].pushes = pushHistory[key].pushes + 1

C33_StopStep ==
    /\ StopPushProcessor =>
           /\ ~pushInterval'
           /\ cycles' = cycles
           /\ deliveryQueue' = deliveryQueue
    /\ ~pushInterval =>
           /\ \A c \in Cycles : cycles'[c].active => cycles[c].active
           /\ \A c \in ActiveCycles : LeavesAttempt(c) => OutcomeRecorded(c)

\* C33: after stopPushProcessor the timer starts no drain cycle until
\* startPushProcessor is called again, and a drain cycle in progress when
\* the processor is stopped is not aborted: it goes on and records the
\* outcome of each of its pushes
C33_StoppedStartsNothing == [][C33_StopStep]_vars

\* the processor is stopped while a drain cycle that has recorded a
\* delivery awaits the push to its next target
C33_CompletedWhileStopped ==
    /\ ~pushInterval
    /\ \E c \in ActiveCycles :
           \E i \in 1..Len(deliveryQueue) :
               /\ deliveryQueue[i].value.status = "delivered"
               /\ deliveryQueue[i].value.lastAttempt = cycles[c].now

----------------------------------------------------------------------------
(* Claims about the end of every attempt (SpecSweepFair) *)

Pending(key) ==
    MapHas(deliveryQueue, key) /\ MapGet(deliveryQueue, key).status = "pending"

\* the attempt is delivered or failed, or it is not in the queue
Ended(key) ==
    MapHas(deliveryQueue, key) => MapGet(deliveryQueue, key).status # "pending"

\* C34: when drain cycles keep being run, time advances and every push
\* returns, every attempt of the queue eventually becomes delivered or
\* failed or is dropped: none stays pending forever
C34_EveryAttemptEnds == \A key \in DeliveryKeys : Pending(key) ~> Ended(key)

\* an attempt that was retried until the retry budget was spent
C34_EndedAfterRetries ==
    \E key \in DeliveryKeys :
        /\ MapHas(deliveryQueue, key)
        /\ MapGet(deliveryQueue, key).status = "failed"
        /\ MapGet(deliveryQueue, key).attemptCount >= MAX_RETRY_ATTEMPTS

----------------------------------------------------------------------------
(* Claims about the events of the outbox log (SpecStore) *)

\* the events that are in the log of the engine before and after the step
\* keep id and envelope, and their delivered sets lose no member
LogStep ==
    \A id \in MapKeys(outboxQueue) :
        MapHas(outboxQueue', id) =>
            /\ MapGet(outboxQueue', id).id = id
            /\ MapGet(outboxQueue', id).event = MapGet(outboxQueue, id).event
            /\ MapGet(outboxQueue, id).delivered \subseteq MapGet(outboxQueue', id).delivered

\* the same for the events of the persistent log
StoredLogStep ==
    \A id \in MapKeys(storage.outbox) :
        MapHas(storage'.outbox, id) =>
            /\ MapGet(storage'.outbox, id).id = id
            /\ MapGet(storage'.outbox, id).event = MapGet(storage.outbox, id).event
            /\ MapGet(storage.outbox, id).deliveredTo
                   \subseteq MapGet(storage'.outbox, id).deliveredTo

\* the part of C35 about the log in memory
C35_LogImmutable == [][LogStep]_vars

\* C35: once an outbox event is stored, its id and its signed envelope
\* never change while it remains in the log, in memory and in the
\* persistent store, and its delivered-to set only grows, whatever the
\* operation: publish, drain, restart
C35_StoredEventImmutable == [][LogStep /\ StoredLogStep]_vars

----------------------------------------------------------------------------
(* Claims about the bound of the attempt counter (Spec) *)

\* C36: in every reachable state of the engine, including the states reached
\* while timer fires and slow pushes interleave, every delivery attempt of
\* the queue has 0 <= attemptCount <= MAX_RETRY_ATTEMPTS
C36_AttemptCountBounded ==
    \A key \in MapKeys(deliveryQueue) :
        /\ MapGet(deliveryQueue, key).attemptCount >= 0
        /\ MapGet(deliveryQueue, key).attemptCount <= MAX_RETRY_ATTEMPTS

----------------------------------------------------------------------------
(* Claims about pushes to instances that are not trusted (SpecDrain) *)

\* the step sends the POST of invocation c: c awaits a push it did not
\* await before the step
SendsPost(c) ==
    /\ cycles'[c].active
    /\ cycles'[c].phase = "posting"
    /\ ~(/\ cycles[c].active
         /\ cycles[c].phase = "posting"
         /\ cycles[c].key = cycles'[c].key)

\* the part of C37 about a target that is untrusted when the loop reaches
\* its attempt: the attempt is counted as failed and nothing is sent
UntrustedCounted ==
    \A key \in MapKeys(deliveryQueue) :
        (/\ ~trustsInstance(config, key[1])
         /\ \A c \in Cycles : cycles[c].active => cycles[c].key # key
         /\ MapHas(deliveryQueue', key)
         /\ MapGet(deliveryQueue', key) # MapGet(deliveryQueue, key))
        => /\ MapGet(deliveryQueue', key).attemptCount
                  = MapGet(deliveryQueue, key).attemptCount + 1
           /\ MapGet(deliveryQueue', key).lastError = "Instance not trusted"
           /\ \A c \in Cycles : SendsPost(c) => cycles'[c].key # key

C37_UntrustedNotSent == [][UntrustedCounted]_vars

\* C37: the engine never sends an inbox push request to an instance that
\* trustsInstance rejects at the moment the request is sent, including
\* when blockInstance happened while pushToInstance awaited the discovery
C37_NoPostToUntrusted ==
    [][\A c \in Cycles : SendsPost(c) => trustsInstance(config, cycles'[c].key[1])]_vars

----------------------------------------------------------------------------
(* Trust annotations over the database: allow and block calls for known   *)
(* and unknown identifiers, questions to trustsInstance, and restarts     *)

\* an engine of any trust mode over a new database, after it came to
\* know the first peer; the other peers are not known
InitTrustStore ==
    /\ clock = 0
    /\ \E mode \in {"open", "allowlist", "blocklist"} :
           config = createFederationConfig(Self, TRUE, mode, Self)
    /\ knownInstances =
           discoverInstance(<<>>, PeerNames[1],
               [kind |-> "ok",
                metadata |-> [version |-> "0.1", inbox |-> PeerNames[1],
                              outbox |-> PeerNames[1], trustMode |-> "open"]], 0)
    /\ discoveries = {}
    /\ trustAnswer = [uri |-> NoValue]
    /\ lastCall = [u \in Uris |-> "none"]
    /\ lastWrite = [u \in Uris |-> "none"]
    /\ eventListeners = <<>>
    /\ inbound = NoCall
    /\ response = [status |-> 0]
    /\ outboxQueue = <<>>
    /\ outboxIdCounter = 0
    /\ lastPublish = PublishResult(FALSE, 0, NoValue)
    /\ deliveryQueue = <<>>
    /\ pushInterval = TRUE
    /\ timerNext = PUSH_INTERVAL_MS
    /\ cycles = [c \in Cycles |-> Idle]
    /\ pushHistory = [k \in DeliveryKeys |-> NoHistory]
    /\ lastPush = [pushed |-> FALSE]
    /\ storage = persistInstance(EmptyStorage, config,
                                  MapGet(knownInstances, PeerNames[1]))
    /\ page = NoPage
    /\ backends = NoBackends

NextTrustStore ==
    \/ \E u \in Peers : AllowInstance(u)
    \/ \E u \in Peers : BlockInstance(u)
    \/ \E u \in Peers : TrustsInstanceCall(u)
    \/ RestartStep

SpecTrustStore == InitTrustStore /\ [][NextTrustStore]_vars

(* Claims about trust annotations across a restart (SpecTrustStore) *)

\* the restart keeps the answer of trustsInstance for identifier u
SameAnswerAfterRestart(u) ==
    RestartStep => trustsInstance(config', u) = trustsInstance(config, u)

\* the part of C38 about the identifiers of known instances
C38_KnownTrustSurvives ==
    [][\A u \in Peers :
          (lastWrite[u] # "none" /\ MapHas(knownInstances, u))
              => SameAnswerAfterRestart(u)]_vars

\* C38: every identifier blocked with blockInstance or allowed with
\* allowInstance keeps that annotation across a restart over the same
\* store, whether or not it was a known instance when the call was made:
\* trustsInstance gives the same answer before and after the restart
C38_TrustSurvivesRestart ==
    [][\A u \in Peers : lastWrite[u] # "none" => SameAnswerAfterRestart(u)]_vars

----------------------------------------------------------------------------
(* Claims about the agreement of the database with memory (SpecStore) *)

\* no drain cycle is in progress: every operation of the engine is complete
NoneInProgress == \A c \in Cycles : ~cycles[c].active

PendingKeys(table) == {key \in MapKeys(table) : MapGet(table, key).status = "pending"}

\* the pending attempts of the database are those of the queue, with the
\* same attemptCount, nextAttempt and status
DeliveriesAgree ==
    /\ PendingKeys(storage.deliveries) = PendingKeys(deliveryQueue)
    /\ \A key \in PendingKeys(deliveryQueue) :
           MapHas(storage.deliveries, key) =>
               /\ MapGet(storage.deliveries, key).attemptCount
                      = MapGet(deliveryQueue, key).attemptCount
               /\ MapGet(storage.deliveries, key).nextAttempt
                      = MapGet(deliveryQueue, key).nextAttempt
               /\ MapGet(storage.deliveries, key).status
                      = MapGet(deliveryQueue, key).status

\* every instance record of the database has the lastError of the record
\* in memory
InstancesAgree ==
    \A uri \in MapKeys(storage.instances) :
        /\ MapHas(knownInstances, uri)
        /\ MapGet(storage.instances, uri).lastError = MapGet(knownInstances, uri).lastError

C39_InstancesAgree == NoneInProgress => InstancesAgree

\* C39: after every completed engine operation the records of the
\* database agree with memory: the same pending delivery attempts with
\* equal attemptCount, nextAttempt and status, and the same lastError on
\* every known instance
C39_StoreAgreesWithMemory == NoneInProgress => (DeliveriesAgree /\ InstancesAgree)

----------------------------------------------------------------------------
(* A reader that pages through the outbox log: it calls getOutboxEvents   *)
(* without a cursor, then with the cursor of the page before, until a     *)
(* page is empty                                                          *)

\* the limits the reader sends: one event per page, the whole log of the
\* model in one page, and the largest limit
WalkLimits == {1, OUTBOX_CAP, MAX_PAGE}

\* the ids of the log in the order of the map
LogIds(outbox) == [i \in 1..Len(outbox) |-> outbox[i].key]

Walking == page.called /\ "walk" \in DOMAIN page

\* one call of the reader; the call is recorded with the ids returned so
\* far and the log the first call read
WalkPage(since, limit, walk, log, published) ==
    LET result == getOutboxEvents(outboxQueue, since, limit)
    IN  [called |-> TRUE, since |-> since, limit |-> limit,
         ids |-> result.ids, cursor |-> result.cursor,
         published |-> published,
         known |-> since # NoCursor /\ MapHas(outboxQueue, since),
         start |-> getOutboxEvents(outboxQueue, NoCursor, limit).ids,
         walk |-> walk \o result.ids, log |-> log, done |-> result.ids = <<>>]

WalkStart(limit) ==
    /\ page' = WalkPage(NoCursor, limit, <<>>, LogIds(outboxQueue), FALSE)
    /\ UNCHANGED <<storage, backends, clock, config, knownInstances, discoveries,
                   trustVars, inboundVars, outboxVars, queueVars, timerVars>>

WalkNext ==
    /\ Walking
    /\ ~page.done
    /\ page' = WalkPage(page.cursor, page.limit, page.walk, page.log, page.published)
    /\ UNCHANGED <<storage, backends, clock, config, knownInstances, discoveries,
                   trustVars, inboundVars, outboxVars, queueVars, timerVars>>

\* the log changes between the walks of the reader, not during a walk
BetweenWalks == IF Walking THEN page.done ELSE TRUE

NextWalk ==
    \/ BetweenWalks /\ PublishStep
    \/ \E limit \in WalkLimits : BetweenWalks /\ WalkStart(limit)
    \/ WalkNext
    \/ BetweenWalks /\ RestartStep
    \/ \E t \in Moments : t <= StoreClock /\ Advance(t)

SpecWalk == InitStore /\ [][NextWalk]_vars

(* Claims about paging through the outbox log (SpecWalk) *)

\* the reader has reached an empty page, and no publish and no other
\* change of the log happened since its first call
WalkComplete ==
    /\ Walking
    /\ page.done
    /\ ~page.published
    /\ page.log = LogIds(outboxQueue)

Ascending(ids) == \A i, j \in 1..Len(ids) : i < j => ids[i] < ids[j]

\* the parts of C40 about every event exactly once and about the size of
\* the pages: the pages together are the log, in the order of the map
C40_EveryEventOnce ==
    /\ Walking => Len(page.ids) <= page.limit
    /\ WalkComplete => page.walk = page.log

\* C40: for any outbox content and any limit in 1..200, with no publish in
\* between, the calls of getOutboxEvents from no cursor on, each with the
\* cursor of the page before, until a page is empty, return every event of
\* the log exactly once, in sequence order, each page holding at most the
\* limit
C40_WalkInSequenceOrder ==
    /\ Walking => Len(page.ids) <= page.limit
    /\ WalkComplete =>
           /\ \A id \in MapKeys(outboxQueue) :
                  Cardinality({i \in 1..Len(page.walk) : page.walk[i] = id}) = 1
           /\ Len(page.walk) = Len(outboxQueue)
           /\ Ascending(page.walk)

====


















